---- MODULE Spec2Model ----
(***************************************************************************)
(* Document verification system: issuance (POST /api/documents/process,    *)
(* POST /api/documents/finalize), the ledger gateway (BlockchainService),  *)
(* and verification (GET /api/verify/:hash, POST /api/verify/upload).      *)
(*                                                                         *)
(* Hashes are natural numbers: Keccak-256 is modelled as an injective map  *)
(* from the hashed bytes to a number.  0 stands for null / undefined.      *)
(* Strings that matter only through substring search (file names, paths)   *)
(* are sequences of symbols.                                               *)
(***************************************************************************)
EXTENDS Integers, Sequences, FiniteSets, TLC

VARIABLES
    docs,      \* the documents table, one row per document_hash
    files,     \* the upload directory: stored path -> bytes
    ledger,    \* the contract's registry: hash -> record
    txCount,   \* transactions mined so far
    chain,     \* app.locals.blockchain: initialized flag and signer
    nextDoc,   \* number of rows inserted so far (creation order)
    lost,      \* number of stored files lost so far
    req,       \* the request being answered
    resp,      \* the response to it
    fin,       \* the in-flight finalize calls of the two concurrent callers
    enc,       \* issuance data, the clock, and the canonical strings encoded from it
    db,        \* app.locals.db is set
    draftsStore,     \* templates.js: draftId -> draft
    finalizedStore,  \* templates.js: finalizedId -> finalized document
    templateLedger,  \* the contract's registry for the hashes of finalized documents
    templateResp,    \* the last answer of a template route
    clock,           \* Date.now(), in minutes
    loginAttempts,   \* auth.js: key -> failed attempts
    activeSessions,  \* auth.js: the session ids in the Map
    tokens,          \* the session ids of the JWTs handed out
    login,           \* the admin logins in flight, per client
    authResp,        \* the last answer of an auth route
    requests,        \* document_requests: id -> status
    requestRows,     \* the rows of documents inserted for requests
    calls,           \* the calls of requests/:requestId/process in flight, per client
    processResp,     \* the last answer to each client's call
    running          \* the server process is alive

\* the state outside the document routes
templateVars == <<db, draftsStore, finalizedStore, templateLedger, templateResp>>
authVars == <<clock, loginAttempts, activeSessions, tokens, login, authResp>>
requestVars == <<requests, requestRows, calls, processResp, running>>
rest == <<templateVars, authVars, requestVars>>

vars == <<docs, files, ledger, txCount, chain, nextDoc, lost, req, resp, fin, enc, rest>>

-----------------------------------------------------------------------------
(* Bounds *)

MaxDocs == 2      \* documents issued
MaxBody == 0      \* distinct payloads an uploader may submit: 0..MaxBody
MaxNameLen == 1   \* symbols in the stem of an uploaded file name
MaxLost == 1      \* stored files that may get lost
MaxRestarts == 2  \* server restarts
MaxClock == 2     \* milliseconds that pass after the issuance
DayLength == 2    \* milliseconds in a day

-----------------------------------------------------------------------------
(* Hash values *)

Nil == 0
DocHashes == 1..MaxDocs
\* the transaction hash of the n-th mined transaction (0x + 64 hex digits)
TxHash(n) == MaxDocs + n
\* '0x' + Math.random().toString(16).substr(2, 64): fewer than 64 hex digits
SimTxHash == 2 * MaxDocs + 1
\* a well-formed hash that belongs to nothing
BogusHash == 2 * MaxDocs + 2
EmbMax == 2 * MaxDocs + 2
EmbHashes == 0..EmbMax

\* /(0x[a-fA-F0-9]{64})/ finds a match in the string carrying hash h
Is64Hex(h) == h # Nil /\ h # SimTxHash

-----------------------------------------------------------------------------
(* File contents *)

\* kind:   what the bytes are ("json" is the text JSON.stringify(documentData))
\* body:   the payload; for "json", the document whose data it is
\* qr:     the document hash drawn on the page (QR code, hash text), or Nil
\* stamp:  the visible verification stamp is drawn
\* subj:   PDF subject: "none", "hash" (the string sh), "verified"
\*         ('Blockchain Verified: ' followed by the string sh)
\* kh:     the hash after 'verification_hash:' in the PDF keywords, or Nil
\* bv:     the PDF keywords contain 'blockchain_verified:true'
\* size:   length in bytes
\* pages:  page count of a PDF
Kinds == <<"pdf", "img", "docx", "txt", "badpdf", "json">>
Subjs == <<"none", "hash", "verified">>

IndexOf(seq, x) == CHOOSE i \in 1..Len(seq) : seq[i] = x

Content(kind, body, qr, stamp, subj, sh, kh, bv, size, pages) ==
    [kind |-> kind, body |-> body, qr |-> qr, stamp |-> stamp, subj |-> subj,
     sh |-> sh, kh |-> kh, bv |-> bv, size |-> size, pages |-> pages]

NoFile == Content("none", 0, Nil, FALSE, "none", Nil, Nil, FALSE, 0, 0)

Raw(kind, body, size, pages) ==
    Content(kind, body, Nil, FALSE, "none", Nil, Nil, FALSE, size, pages)

JsonOf(d) == Raw("json", d, 100, 0)

\* a payload no issuer submitted: what a stored payload becomes when bytes of
\* it are changed
AlteredBody == MaxBody + 1

ByteBase == EmbMax + 1

Bit(b) == IF b THEN 1 ELSE 0

\* ethers.keccak256(buffer): injective on contents; the bytes of
\* JSON.stringify(documentData) hash to the document hash itself
KeccakBytes(c) ==
    IF c.kind = "json" THEN c.body
    ELSE LET n1 == (IndexOf(Kinds, c.kind) - 1) * (MaxBody + 2) + c.body
             n2 == (n1 * (MaxDocs + 1) + c.qr) * 2 + Bit(c.stamp)
             n3 == (n2 * 3 + (IndexOf(Subjs, c.subj) - 1)) * (EmbMax + 1) + c.sh
             n4 == (n3 * (EmbMax + 1) + c.kh) * 2 + Bit(c.bv)
         IN ByteBase + (n4 * 1024 + c.size) * 4 + c.pages

\* PDFDocument.load succeeds on these bytes
IsPdf(c) == c.kind = "pdf"

extractHashFromPDF(c) ==
    IF ~IsPdf(c) THEN [hash |-> Nil, isWatermarked |-> FALSE]
    ELSE LET h1 == IF c.subj = "hash" /\ c.sh # Nil THEN c.sh ELSE Nil
             wm1 == c.subj = "verified"
             h2 == IF wm1 /\ Is64Hex(c.sh) THEN c.sh ELSE h1
             h3 == IF Is64Hex(c.kh) THEN c.kh ELSE h2
         IN [hash |-> h3, isWatermarked |-> wm1 \/ c.bv]

-----------------------------------------------------------------------------
(* File names and paths: sequences of symbols, each standing for a character *)
(* or a run of characters.  "a" is a letter that also occurs in the storage  *)
(* directory names, "z" one that occurs in none of them.                     *)

HexSym(d) == "0x" \o ToString(d)
IsHexSym(s) == \E d \in DocHashes : s = HexSym(d)
\* [a-fA-F0-9]
IsHexDigit(s) == s = "a"

NameSyms == {"a", "z", "_", "Verified"} \cup {HexSym(d) : d \in DocHashes}

SeqsUpTo(S, n) == UNION {[1..k -> S] : k \in 0..n}

ExtOf(kind) ==
    CASE kind = "pdf" -> ".pdf"
      [] kind = "badpdf" -> ".pdf"
      [] kind = "img" -> ".png"
      [] kind = "docx" -> ".docx"
      [] OTHER -> ".txt"

\* the mimetype the client declares for bytes of this kind
MimeOf(kind) ==
    CASE kind = "pdf" -> "application/pdf"
      [] kind = "badpdf" -> "application/pdf"
      [] kind = "img" -> "image/png"
      [] kind = "docx" -> "application/vnd.openxmlformats-officedocument.wordprocessingml.document"
      [] OTHER -> "text/plain"

\* path.basename(originalname, path.extname(originalname)): a name that is
\* only '.ext' has no extension and is its own base name
BaseOf(stem, ext) == IF stem = <<>> THEN <<ext>> ELSE stem

Drop(s, from, to) ==
    SubSeq(s, 1, from - 1) \o SubSeq(s, to + 1, Len(s))

\* the end of the run 0x[a-fA-F0-9]+ that starts at position i
RECURSIVE HexRunEnd(_, _)
HexRunEnd(s, i) ==
    IF i < Len(s) /\ IsHexDigit(s[i + 1]) THEN HexRunEnd(s, i + 1) ELSE i

\* baseName.replace(/[_-]?0x[a-fA-F0-9]+/, ''): the leftmost match only
StripHexFragment(s) ==
    IF \E i \in 1..Len(s) : IsHexSym(s[i])
    THEN LET i == CHOOSE k \in 1..Len(s) :
                      IsHexSym(s[k]) /\ \A j \in 1..(k - 1) : ~IsHexSym(s[j])
             from == IF i > 1 /\ s[i - 1] = "_" THEN i - 1 ELSE i
         IN Drop(s, from, HexRunEnd(s, i))
    ELSE s

\* baseName.replace(/^Verified_/, '')
StripVerified(s) ==
    IF Len(s) >= 2 /\ s[1] = "Verified" /\ s[2] = "_" THEN SubSeq(s, 3, Len(s)) ELSE s

\* lines 156-158 of the upload handler
FuzzyBaseName(stem, ext) == StripVerified(StripHexFragment(BaseOf(stem, ext)))

LikeMutantIgnoreCase(text, pat) ==
    LET lower(sym) == IF sym = "Verified" THEN "verified" ELSE sym
    IN \E k \in 0..(Len(text) - Len(pat)) :
          \A i \in 1..Len(pat) : pat[i] = "_" \/ lower(pat[i]) = lower(text[k + i])

\* text LIKE '%' || pat || '%'; '_' in the pattern matches any one character
Like(text, pat) ==
    \E k \in 0..(Len(text) - Len(pat)) :
        \A i \in 1..Len(pat) : pat[i] = "_" \/ pat[i] = text[k + i]

ProcessedPathStr(d, pext) == <<"a", "/", HexSym(d), pext>>
WatermarkedPathStr(d, pext) == <<"a", "/", HexSym(d), "_", "verified", pext>>

-----------------------------------------------------------------------------
(* Stored paths, rows, responses *)

Dirs == {"originals", "processed", "watermarked"}
Exts == {".pdf", ".png", ".docx", ".txt"}

Path(dir, d, ext) == [dir |-> dir, d |-> d, ext |-> ext]
NoPath == Path("none", Nil, "")
AllPaths == [dir : Dirs, d : DocHashes, ext : Exts]

\* the path as text, for LIKE
PathStr(p) ==
    IF p.dir = "watermarked" THEN WatermarkedPathStr(p.d, p.ext)
    ELSE ProcessedPathStr(p.d, p.ext)

\* fs.readFile / fs.access succeed on the path
Readable(fs, p) == p # NoPath /\ fs[p] # NoFile

NoRow ==
    [exists |-> FALSE, original_file_name |-> <<>>,
     processed_file_path |-> NoPath, original_file_path |-> NoPath,
     watermarked_file_path |-> NoPath,
     blockchain_tx_hash |-> Nil, block_number |-> Nil, verified |-> FALSE,
     content_hash |-> Nil, processed_content_hash |-> Nil,
     watermarked_content_hash |-> Nil]

NoLedgerRecord == [exists |-> FALSE, tx |-> Nil, block |-> 0]

NoReq ==
    [op |-> "none", hash |-> Nil, bytes |-> NoFile, stem |-> <<>>,
     rpcOk |-> TRUE, dbFault |-> "none"]

NoResp ==
    [op |-> "none", status |-> 0, success |-> FALSE, error |-> "",
     verificationStatus |-> "", authentic |-> FALSE, tampered |-> FALSE,
     confidence |-> 0, tamperType |-> "", documentType |-> "",
     uploadedHash |-> Nil, hashAlgorithm |-> "", documentHash |-> Nil,
     verified |-> "undefined", transactionHash |-> Nil, block_number |-> Nil,
     isWatermarked |-> FALSE, expectedVersion |-> ""]

Idle == [pc |-> "idle", hash |-> Nil, tx |-> Nil, wpath |-> NoPath, resp |-> NoResp]

\* the canonical content strings that are hashed for the ledger
\* (PDFService.js, TemplateService); a string is the sequence of its pieces

\* a property that is missing from an object
undefined == "#undefined"
\* what a template literal prints for a value
Str(v) == IF v = undefined THEN "undefined" ELSE v
\* a || b
Or(a, b) == IF a = undefined \/ a = "" THEN b ELSE a
\* if (v)
IsSet(v) == v # undefined /\ v # ""

\* Date.prototype.toISOString: day and time of day, to the millisecond
toISOString(t) == <<ToString(t \div DayLength), "T", ToString(t % DayLength), "Z">>
\* Date.prototype.toLocaleDateString: the day only
toLocaleDateString(t) == <<ToString(t \div DayLength)>>

RECURSIVE CourseLines(_, _)
\* PDFService.js lines 36-41 and 341-346: one line per course, from the
\* printed code and name
CourseLines(courses, i) ==
    IF i > Len(courses) THEN <<>>
    ELSE LET course == courses[i]
         IN <<ToString(i), ". ", course.code, " - ", course.name>>
            \o (IF IsSet(course.units) THEN <<" (", course.units, " units)">> ELSE <<>>)
            \o (IF IsSet(course.grade) THEN <<" - Grade: ", course.grade>> ELSE <<>>)
            \o <<"\n">>
            \o CourseLines(courses, i + 1)

RECURSIVE GradeLines(_, _)
\* PDFService.js lines 47-49
GradeLines(grades, i) ==
    IF i > Len(grades) THEN <<>>
    ELSE <<grades[i][1], ": ", grades[i][2], "\n">> \o GradeLines(grades, i + 1)

\* PDFService.generateDocumentContent (lines 16-54)
generateDocumentContent(documentData) ==
    LET printed == [i \in 1..Len(documentData.courseData) |->
                       LET course == documentData.courseData[i]
                       IN [code |-> Str(course.courseCode), name |-> Str(course.courseName),
                           units |-> course.units, grade |-> course.grade]]
    IN <<"DOCUMENT_TYPE:", Str(documentData.documentType), "\n",
         "STUDENT_ID:", Str(documentData.studentId), "\n",
         "STUDENT_NAME:", Str(documentData.studentName), "\n",
         "INSTITUTION:", Str(documentData.institutionName), "\n",
         "DATE_ISSUED:">> \o toISOString(documentData.dateIssued) \o <<"\n">>
       \o (IF Len(documentData.courseData) > 0
           THEN <<"COURSES:", "\n">> \o CourseLines(printed, 1)
           ELSE <<>>)
       \o (IF Len(documentData.grades) > 0
           THEN <<"GRADES:", "\n">> \o GradeLines(documentData.grades, 1)
           ELSE <<>>)

\* the fields a Word template can ask for
Placeholders == {"student_name", "student_id", "documentType", "institution", "issue_date"}

\* TemplateService.prepareTemplateData (part_002 lines 383-444), at time now
prepareTemplateData(studentData, placeholders, now) ==
    LET field(key, v) == IF key \in placeholders THEN Or(v, "") ELSE undefined
    IN [student_name |-> field("student_name", studentData.studentName),
        student_id |-> field("student_id", studentData.studentId),
        documentType |-> field("documentType", studentData.documentType),
        institution |-> field("institution", Or(studentData.institutionName, "Institution Name")),
        issue_date |-> IF "issue_date" \in placeholders THEN toLocaleDateString(now) ELSE <<>>,
        courses |-> [i \in 1..Len(studentData.courseData) |->
                        [code |-> Or(studentData.courseData[i].courseCode, ""),
                         name |-> Or(studentData.courseData[i].courseName, ""),
                         units |-> Or(studentData.courseData[i].units, ""),
                         grade |-> Or(studentData.courseData[i].grade, "")]]]

\* TemplateService.createStandardizedContent (part_002 lines 50-63), at time now
createStandardizedContent(templateData, studentData, now) ==
    generateDocumentContent(
        [studentId |-> studentData.studentId,
         studentName |-> studentData.studentName,
         documentType |-> studentData.documentType,
         courseData |-> studentData.courseData,
         grades |-> studentData.grades,
         dateIssued |-> now,
         institutionName |-> Or(studentData.institutionName,
                                Or(templateData.institution, "Institution"))])

\* PDFService.createStandardizedContentFromTemplateData (lines 323-350), at time now
createStandardizedContentFromTemplateData(templateData, now) ==
    LET printed == [i \in 1..Len(templateData.courses) |->
                       LET course == templateData.courses[i]
                       IN [code |-> Or(course.code, ""), name |-> Or(course.name, ""),
                           units |-> course.units, grade |-> course.grade]]
    IN <<"DOCUMENT_TYPE:", Or(templateData.documentType, "WORD_TEMPLATE"), "\n",
         "STUDENT_ID:", Or(templateData.student_id, ""), "\n",
         "STUDENT_NAME:", Or(templateData.student_name, ""), "\n",
         "INSTITUTION:", Or(templateData.institution, ""), "\n",
         "DATE_ISSUED:">>
       \o (IF templateData.issue_date # <<>> THEN templateData.issue_date ELSE toISOString(now))
       \o <<"\n">>
       \o (IF Len(templateData.courses) > 0
           THEN <<"COURSES:", "\n">> \o CourseLines(printed, 1)
           ELSE <<>>)

\* the issuance data of a request: DocumentController.js lines 26-34 build it
\* with dateIssued = new Date(), here time 0
Courses ==
    {<<>>} \cup {<<[courseCode |-> "CS1", courseName |-> "Intro", units |-> u, grade |-> g]>> :
                    u \in {"3", undefined}, g \in {"A", undefined}}
IssuanceData ==
    [studentId : {"S1"}, studentName : {"Ann"}, documentType : {"TOR"},
     courseData : Courses, grades : {<<>>, << <<"Math", "A">> >>},
     dateIssued : {0}, institutionName : {"Uni", undefined}]

Encoders == {"pdf", "word", "template"}
NotEncoded == <<>>

EncStart(data, placeholders) ==
    [data |-> data, placeholders |-> placeholders, now |-> 0,
     first |-> [e \in Encoders |-> NotEncoded], last |-> [e \in Encoders |-> NotEncoded]]

(* Admin authentication (routes/auth.js): state. Times are in minutes. *)

MAX_LOGIN_ATTEMPTS == 5
LOCKOUT_DURATION == 15   \* 15 * 60 * 1000 ms

MaxKeys == 1      \* (username, client IP) keys
MaxTime == 17     \* minutes the clock runs
MaxSessions == 2  \* sessions created by successful logins

Keys == 1..MaxKeys
SessionIds == 1..MaxSessions
Clients == {1, 2}

\* loginAttempts.get(key) is undefined; lockedUntil 0 is an unset lockedUntil
NoAttempts == [exists |-> FALSE, count |-> 0, lockedUntil |-> 0]
NoLogin == [pc |-> "idle", key |-> 0, credentials |-> ""]
NoAuthResp == [op |-> "", key |-> 0, session |-> 0, status |-> 0, error |-> ""]

InitAuth ==
    /\ clock = 1
    /\ loginAttempts = [k \in Keys |-> NoAttempts]
    /\ activeSessions = {}
    /\ tokens = {}
    /\ login = [c \in Clients |-> NoLogin]
    /\ authResp = NoAuthResp

(* Document requests (routes/registrars.js): state *)

MaxRequests == 2  \* rows of document_requests

RequestIds == 1..MaxRequests
\* the second in which a call computes dateIssued
Seconds == {1, 2}
\* the tokens a call may carry: none, an admin's, a registrar's
Roles == {"none", "admin", "registrar"}

NoCall == [pc |-> "idle", request |-> 0]
NoProcessResp == [request |-> 0, status |-> 0]

DatabaseServiceMutantHasExecute == TRUE

\* DatabaseService has the static methods initialize, createTables, seedData,
\* query and close: db.execute is undefined
DatabaseServiceHasExecute == FALSE

InitRequests ==
    /\ requestRows = {}
    /\ calls = [c \in Clients |-> NoCall]
    /\ processResp = [c \in Clients |-> NoProcessResp]
    /\ running = TRUE

(* The template workflow (routes/templates.js): state *)

MaxDrafts == 2     \* draft ids a registrar may name
MaxEdits == 1      \* distinct edited files a registrar may upload: 1..MaxEdits
MaxFinalized == 3  \* milliseconds at which a draft may be finalized

DraftIds == 1..MaxDrafts
FinalizedIds == 1..MaxFinalized
\* studentData of a draft: 0 is {} (a draft made by an upload), 1 the data posted
\* with POST /:templateId/draft
StudentData == {0, 1}
\* ethers.keccak256(ethers.toUtf8Bytes(documentContent)): one hash per content
TemplateHashes == 1..(MaxEdits + 2)

NoDraft == [exists |-> FALSE, studentData |-> 0, status |-> "", editedFilePath |-> 0]
NoFinalized == [exists |-> FALSE, draftId |-> 0, contentHash |-> Nil, status |-> ""]
NoTemplateResp == [op |-> "", id |-> 0, status |-> 0]

\* the state after the module is loaded: both Maps empty, nothing registered
InitStores ==
    /\ InitAuth
    /\ draftsStore = [d \in DraftIds |-> NoDraft]
    /\ finalizedStore = [f \in FinalizedIds |-> NoFinalized]
    /\ templateLedger = [h \in TemplateHashes |-> [exists |-> FALSE, tx |-> 0, block |-> 0]]
    /\ templateResp = NoTemplateResp

InitRest ==
    /\ InitStores
    /\ InitRequests
    /\ requests = [r \in RequestIds |-> "pending"]

-----------------------------------------------------------------------------
NoEnc == EncStart(CHOOSE data \in IssuanceData : data.courseData = <<>>, Placeholders)

\* the blockchain service after initializeServices: connected with a signer,
\* connected read-only, or not available
ChainStates == {<<TRUE, TRUE>>, <<TRUE, FALSE>>, <<FALSE, FALSE>>}
Chain(i, sg, n) == [initialized |-> i, signer |-> sg, restarts |-> n]

Init ==
    /\ docs = [d \in DocHashes |-> NoRow]
    /\ files = [p \in AllPaths |-> NoFile]
    /\ ledger = [d \in DocHashes |-> NoLedgerRecord]
    /\ txCount = 0
    /\ chain \in {Chain(i, sg, 0) : <<i, sg>> \in ChainStates}
    /\ nextDoc = 0
    /\ lost = 0
    /\ req = NoReq
    /\ resp = NoResp
    /\ fin = [c \in {1, 2} |-> Idle]
    /\ enc = NoEnc
    /\ db = TRUE
    /\ InitRest

-----------------------------------------------------------------------------
(* POST /api/documents/process *)

ProcKinds == {"pdf", "img", "docx", "txt"}
ProcStems == {<<"z">>}
ProcUploads == {Raw(k, b, 100, IF k = "pdf" THEN 1 ELSE 0) : k \in ProcKinds, b \in 0..MaxBody}

\* embedQRInPDF, embedQRInImage, createPDFFromWord, createCoverPagePDF
ProcessedContent(u, d) ==
    CASE u.kind = "pdf" ->
            Content("pdf", u.body, d, FALSE, "hash", d, d, FALSE, u.size + 10, u.pages)
      [] u.kind = "img" ->
            Content("img", u.body, d, FALSE, "none", Nil, Nil, FALSE, u.size + 10, 0)
      [] u.kind = "docx" ->
            Content("pdf", u.body, d, FALSE, "hash", d, d, FALSE, u.size + 10, 1)
      [] OTHER ->
            Content("pdf", 0, d, FALSE, "none", Nil, Nil, FALSE, 50, 1)

ProcessedExt(u) == IF u.kind = "img" THEN ".png" ELSE ".pdf"

Process(u, stem) ==
    /\ resp = NoResp
    /\ UNCHANGED <<enc, rest>>
    /\ nextDoc < MaxDocs
    /\ LET d == nextDoc + 1
           opath == Path("originals", d, ExtOf(u.kind))
           ppath == Path("processed", d, ProcessedExt(u))
       IN /\ files' = [files EXCEPT ![opath] = u, ![ppath] = ProcessedContent(u, d)]
          /\ docs' = [docs EXCEPT ![d] =
                        [NoRow EXCEPT !.exists = TRUE,
                                      !.original_file_name = stem \o <<ExtOf(u.kind)>>,
                                      !.processed_file_path = ppath,
                                      !.original_file_path = opath]]
          /\ nextDoc' = d
          /\ req' = [NoReq EXCEPT !.op = "process", !.bytes = u, !.stem = stem]
          /\ resp' = [NoResp EXCEPT !.op = "process", !.status = 200, !.success = TRUE,
                                    !.documentHash = d]
    /\ UNCHANGED <<ledger, txCount, chain, lost, fin>>

-----------------------------------------------------------------------------
(* BlockchainService *)

\* contract.registerDocument(hash) followed by tx.wait(): the registry holds
\* at most one record per hash and rejects a hash it already holds
ContractRegister(lg, n, h) ==
    IF lg[h].exists
    THEN [ok |-> FALSE, ledger |-> lg, txCount |-> n]
    ELSE [ok |-> TRUE, txCount |-> n + 1,
          ledger |-> [lg EXCEPT ![h] = [exists |-> TRUE, tx |-> TxHash(n + 1), block |-> n + 1]]]

\* contract.verifyDocument(hash) -> (exists, timestamp)
ContractVerify(lg, h) == IF h \in DOMAIN lg THEN lg[h].exists ELSE FALSE

\* what the node does with a call: "ok" answers it; "fail" rejects it before the
\* transaction is sent; "lost" mines the transaction but tx.wait() rejects
RpcOutcomes == {"ok", "fail", "lost"}

\* BlockchainService.registerDocument({documentContent: hash})
registerDocument(lg, n, h, rpc) ==
    IF ~chain.initialized \/ ~chain.signer
    THEN [threw |-> TRUE, success |-> FALSE, transactionHash |-> Nil, blockNumber |-> 0,
          ledger |-> lg, txCount |-> n]
    ELSE LET r == ContractRegister(lg, n, h)
         IN IF rpc = "ok" /\ r.ok
            THEN [threw |-> FALSE, success |-> TRUE, transactionHash |-> r.ledger[h].tx,
                  blockNumber |-> r.ledger[h].block, ledger |-> r.ledger, txCount |-> r.txCount]
            ELSE IF rpc = "lost" /\ r.ok
            THEN [threw |-> FALSE, success |-> FALSE, transactionHash |-> Nil, blockNumber |-> 0,
                  ledger |-> r.ledger, txCount |-> r.txCount]
            ELSE [threw |-> FALSE, success |-> FALSE, transactionHash |-> Nil, blockNumber |-> 0,
                  ledger |-> lg, txCount |-> n]

verifyDocumentMutantFailOpen(lg, h, rpcOk) ==
    IF ~chain.initialized THEN [threw |-> TRUE, verified |-> "undefined"]
    ELSE IF ~rpcOk THEN [threw |-> FALSE, verified |-> "true"]
    ELSE [threw |-> FALSE, verified |-> IF ContractVerify(lg, h) THEN "true" ELSE "false"]

\* BlockchainService.verifyDocument(hash): a failed call returns
\* {success: false, error} with no 'verified' property
verifyDocument(lg, h, rpcOk) ==
    IF ~chain.initialized THEN [threw |-> TRUE, verified |-> "undefined"]
    ELSE IF ~rpcOk THEN [threw |-> FALSE, verified |-> "undefined"]
    ELSE [threw |-> FALSE, verified |-> IF ContractVerify(lg, h) THEN "true" ELSE "false"]

BlockchainVerifiedMutantDatabaseFallback(h, rpcOk) ==
    IF chain.initialized
    THEN LET r == verifyDocument(ledger, h, rpcOk)
         IN IF r.threw THEN "false" ELSE r.verified
    ELSE IF h \in DocHashes /\ docs[h].exists THEN "true" ELSE "false"

\* lines 27-41 and 193-207 of the verification routes: the value of
\* blockchainVerified after the guarded call
BlockchainVerified(h, rpcOk) ==
    IF chain.initialized
    THEN LET r == verifyDocument(ledger, h, rpcOk)
         IN IF r.threw THEN "false" ELSE r.verified
    ELSE "false"

Truthy(v) == v = "true"

-----------------------------------------------------------------------------
(* POST /api/documents/finalize *)

\* addWatermarkToPDF, addWatermarkToImage, or a plain copy
WatermarkedContent(c, ext, txHash) ==
    CASE ext = ".pdf" ->
            Content("pdf", c.body, c.qr, TRUE, "verified", txHash, txHash, TRUE,
                    c.size + 10, c.pages)
      [] ext = ".png" ->
            Content("img", c.body, c.qr, TRUE, "none", Nil, Nil, FALSE, c.size + 10, 0)
      [] OTHER -> c

\* createWatermarkedDocument(processed_file_path, document_hash, watermarkData):
\* throws when the processed file cannot be read or parsed
createWatermarkedDocument(fs, ppath, d, txHash) ==
    IF ~Readable(fs, ppath) \/ (ppath.ext = ".pdf" /\ ~IsPdf(fs[ppath]))
    THEN [threw |-> TRUE, path |-> NoPath, files |-> fs]
    ELSE LET wpath == Path("watermarked", d, ppath.ext)
         IN [threw |-> FALSE, path |-> wpath,
             files |-> [fs EXCEPT ![wpath] = WatermarkedContent(fs[ppath], ppath.ext, txHash)]]

\* lines 267-283: the row says the document is verified and its watermarked
\* file is still there
AlreadyVerified(row, fs) ==
    /\ row.verified
    /\ row.blockchain_tx_hash # Nil
    /\ row.watermarked_file_path # NoPath
    /\ Readable(fs, row.watermarked_file_path)

\* blockchainResult.block_number: registerDocument names the property
\* blockNumber, so this read yields undefined, which the driver stores as NULL
ReadBlockNumber(result) == Nil

\* lines 335-349: the UPDATE after a successful registration
FinalizeUpdate(row, txHash, blockNumber, wpath) ==
    IF wpath # NoPath
    THEN [row EXCEPT !.blockchain_tx_hash = txHash, !.block_number = blockNumber,
                     !.verified = TRUE, !.watermarked_file_path = wpath]
    ELSE [row EXCEPT !.blockchain_tx_hash = txHash, !.block_number = blockNumber,
                     !.verified = TRUE]

FinResp(status, success, error) ==
    [NoResp EXCEPT !.op = "finalize", !.status = status, !.success = success, !.error = error]

\* lines 177-250: the branch taken when the blockchain service is missing.
\* simulatedResult is declared inside the try block, so evaluating the UPDATE's
\* parameters at line 228 throws a ReferenceError and the UPDATE is never sent.
FinalizeSimulated(d) ==
    IF ~docs[d].exists
    THEN /\ resp' = FinResp(500, FALSE, "Failed to finalize document")
         /\ UNCHANGED <<files, docs>>
    ELSE LET w == createWatermarkedDocument(files, docs[d].processed_file_path, d, SimTxHash)
         IN /\ files' = w.files
            /\ UNCHANGED docs
            /\ resp' = IF w.threw
                       THEN FinResp(500, FALSE, "Failed to create watermarked document")
                       ELSE FinResp(500, FALSE, "Failed to finalize document")

\* lines 252-361: the branch taken when the blockchain service is initialized
FinalizeRegistered(d, rpc) ==
    IF ~docs[d].exists
    THEN /\ resp' = FinResp(500, FALSE, "Failed to finalize document")
         /\ UNCHANGED <<docs, files, ledger, txCount>>
    ELSE IF AlreadyVerified(docs[d], files)
    THEN /\ resp' = [FinResp(200, TRUE, "") EXCEPT
                        !.transactionHash = docs[d].blockchain_tx_hash,
                        !.block_number = docs[d].block_number,
                        !.verified = "true"]
         /\ UNCHANGED <<docs, files, ledger, txCount>>
    ELSE LET r == registerDocument(ledger, txCount, d, rpc)
         IN IF r.threw
            THEN /\ resp' = FinResp(500, FALSE, "Failed to finalize document")
                 /\ UNCHANGED <<docs, files, ledger, txCount>>
            ELSE IF ~r.success
            THEN /\ resp' = FinResp(500, FALSE, "Blockchain registration failed")
                 /\ ledger' = r.ledger
                 /\ txCount' = r.txCount
                 /\ UNCHANGED <<docs, files>>
            ELSE LET w == createWatermarkedDocument(files, docs[d].processed_file_path, d,
                                                    r.transactionHash)
                 IN /\ ledger' = r.ledger
                    /\ txCount' = r.txCount
                    /\ files' = w.files
                    /\ docs' = [docs EXCEPT ![d] =
                                  FinalizeUpdate(@, r.transactionHash, ReadBlockNumber(r), w.path)]
                    /\ resp' = [FinResp(200, TRUE, "") EXCEPT
                                   !.transactionHash = r.transactionHash,
                                   !.block_number = ReadBlockNumber(r),
                                   !.verified = "true"]

Finalize(d, rpc) ==
    /\ resp = NoResp
    /\ UNCHANGED <<enc, rest>>
    /\ \A c \in {1, 2} : fin[c].pc = "idle"
    /\ req' = [NoReq EXCEPT !.op = "finalize", !.hash = d, !.rpcOk = (rpc = "ok")]
    /\ IF d = Nil
       THEN /\ resp' = FinResp(400, FALSE, "Document hash is required")
            /\ UNCHANGED <<docs, files, ledger, txCount>>
       ELSE IF ~chain.initialized
       THEN /\ FinalizeSimulated(d)
            /\ UNCHANGED <<ledger, txCount>>
       ELSE FinalizeRegistered(d, rpc)
    /\ UNCHANGED <<chain, nextDoc, lost, fin>>

-----------------------------------------------------------------------------
(* POST /api/documents/finalize, one await at a time, for two callers whose *)
(* requests overlap (lines 252-361)                                         *)

Callers == {1, 2}

FinDone(c, r) == [fin EXCEPT ![c].pc = "done", ![c].resp = r]

\* lines 253-283: SELECT the row, answer at once when it is already verified
FinStart(c, d) ==
    /\ resp = NoResp
    /\ UNCHANGED <<enc, rest>>
    /\ chain.initialized
    /\ fin[c].pc = "idle"
    /\ fin' = IF ~docs[d].exists
              THEN [FinDone(c, FinResp(500, FALSE, "Failed to finalize document"))
                    EXCEPT ![c].hash = d]
              ELSE IF AlreadyVerified(docs[d], files)
              THEN [FinDone(c, [FinResp(200, TRUE, "") EXCEPT
                                   !.transactionHash = docs[d].blockchain_tx_hash,
                                   !.block_number = docs[d].block_number,
                                   !.verified = "true"])
                    EXCEPT ![c].hash = d]
              ELSE [fin EXCEPT ![c].pc = "register", ![c].hash = d]
    /\ UNCHANGED <<docs, files, ledger, txCount, chain, nextDoc, lost, req, resp>>

\* lines 288-298: await blockchain.registerDocument(...)
FinRegister(c) ==
    /\ fin[c].pc = "register"
    /\ UNCHANGED <<enc, rest>>
    /\ LET r == registerDocument(ledger, txCount, fin[c].hash, "ok")
       IN IF r.threw
          THEN /\ fin' = FinDone(c, FinResp(500, FALSE, "Failed to finalize document"))
               /\ UNCHANGED <<ledger, txCount>>
          ELSE IF ~r.success
          THEN /\ fin' = FinDone(c, FinResp(500, FALSE, "Blockchain registration failed"))
               /\ UNCHANGED <<ledger, txCount>>
          ELSE /\ fin' = [fin EXCEPT ![c].pc = "watermark", ![c].tx = r.transactionHash]
               /\ ledger' = r.ledger
               /\ txCount' = r.txCount
    /\ UNCHANGED <<docs, files, chain, nextDoc, lost, req, resp>>

\* lines 308-332: await createWatermarkedDocument(...), errors swallowed
FinWatermark(c) ==
    /\ fin[c].pc = "watermark"
    /\ UNCHANGED <<enc, rest>>
    /\ LET d == fin[c].hash
           w == createWatermarkedDocument(files, docs[d].processed_file_path, d, fin[c].tx)
       IN /\ files' = w.files
          /\ fin' = [fin EXCEPT ![c].pc = "update", ![c].wpath = w.path]
    /\ UNCHANGED <<docs, ledger, txCount, chain, nextDoc, lost, req, resp>>

\* lines 335-361: await the UPDATE, then res.json(...)
FinUpdate(c) ==
    /\ fin[c].pc = "update"
    /\ UNCHANGED <<enc, rest>>
    /\ LET d == fin[c].hash
       IN /\ docs' = [docs EXCEPT ![d] =
                        FinalizeUpdate(@, fin[c].tx, ReadBlockNumber(fin[c]), fin[c].wpath)]
          /\ fin' = FinDone(c, [FinResp(200, TRUE, "") EXCEPT
                                   !.transactionHash = fin[c].tx,
                                   !.block_number = ReadBlockNumber(fin[c]),
                                   !.verified = "true"])
    /\ UNCHANGED <<files, ledger, txCount, chain, nextDoc, lost, req, resp>>

\* the caller has read its response
FinReturn(c) ==
    /\ fin[c].pc = "done"
    /\ UNCHANGED <<enc, rest>>
    /\ fin' = [fin EXCEPT ![c] = Idle]
    /\ UNCHANGED <<docs, files, ledger, txCount, chain, nextDoc, lost, req, resp>>

-----------------------------------------------------------------------------
(* The environment *)

\* the server is restarted; initializeServices decides anew whether the
\* blockchain service is available
Restart ==
    /\ resp = NoResp
    /\ UNCHANGED <<enc, rest>>
    /\ \A c \in {1, 2} : fin[c].pc = "idle"
    /\ chain.restarts < MaxRestarts
    /\ \E <<i, sg>> \in ChainStates :
          /\ <<i, sg>> # <<chain.initialized, chain.signer>>
          /\ chain' = Chain(i, sg, chain.restarts + 1)
    /\ UNCHANGED <<docs, files, ledger, txCount, nextDoc, lost, req, resp, fin>>

\* a stored file is lost
LoseFile(p) ==
    /\ resp = NoResp
    /\ UNCHANGED <<enc, rest>>
    /\ lost < MaxLost
    /\ files[p] # NoFile
    /\ files' = [files EXCEPT ![p] = NoFile]
    /\ lost' = lost + 1
    /\ UNCHANGED <<docs, ledger, txCount, chain, nextDoc, req, resp, fin>>

\* res.json(...) has been sent; the server waits for the next request
Deliver ==
    /\ resp # NoResp
    /\ UNCHANGED <<enc, rest>>
    /\ resp.op # "exit"
    /\ resp' = NoResp
    /\ req' = NoReq
    /\ UNCHANGED <<docs, files, ledger, txCount, chain, nextDoc, lost, fin>>

-----------------------------------------------------------------------------
(* POST /api/registrars/requests/:requestId/process (registrars.js 163-277) *)

\* the route handlers are async functions; a rejection that leaves one is an
\* unhandled rejection under Express 4 and goes to the error middleware under
\* Express 5
ExpressVersions == {4, 5}

\* server.js 480-483: process.on('unhandledRejection') ends the process, and
\* the request is never answered
ProcessExit == [NoResp EXCEPT !.op = "exit"]

\* server.js 336-344: the error middleware
InternalServerError(op) ==
    [NoResp EXCEPT !.op = op, !.status = 500, !.error = "Internal server error"]

\* app.locals.db is DatabaseService (server.js 55), which has query() and no
\* execute(): the SELECT of line 170 throws a TypeError before the request is
\* read, the handler's catch calls db.execute again at line 266, and that
\* TypeError leaves the handler.  Lines 186-260 (status 'processing', the
\* registration guarded by blockchain.initialized, the INSERT with
\* 'pending_hash', status 'completed', success: true) are never reached.
ProcessRequest(express) ==
    /\ resp = NoResp
    /\ UNCHANGED <<enc, rest>>
    /\ \A c \in {1, 2} : fin[c].pc = "idle"
    /\ req' = [NoReq EXCEPT !.op = "request"]
    /\ resp' = IF express = 4 THEN ProcessExit ELSE InternalServerError("request")
    /\ UNCHANGED <<docs, files, ledger, txCount, chain, nextDoc, lost, fin>>

-----------------------------------------------------------------------------
(* GET /api/verify/:hash *)

VerifyHash(h, rpcOk) ==
    /\ resp = NoResp
    /\ UNCHANGED <<enc, rest>>
    /\ req' = [NoReq EXCEPT !.op = "verify", !.hash = h, !.rpcOk = rpcOk]
    /\ LET bv == BlockchainVerified(h, rpcOk)
           row == IF h \in DocHashes THEN docs[h] ELSE NoRow
       IN resp' = IF ~row.exists /\ ~Truthy(bv)
                  THEN [NoResp EXCEPT !.op = "verify", !.status = 404, !.verified = "false",
                                      !.error = "Document not found"]
                  ELSE [NoResp EXCEPT !.op = "verify", !.status = 200, !.success = TRUE,
                                      !.verified = bv, !.documentHash = h]
    /\ UNCHANGED <<docs, files, ledger, txCount, chain, nextDoc, lost, fin>>

-----------------------------------------------------------------------------
(* POST /api/verify/upload *)

Rows == {d \in DocHashes : docs[d].exists}

Max(S) == CHOOSE x \in S : \A y \in S : y <= x

\* SELECT * FROM documents WHERE document_hash = $1
RowsByDocumentHash(h) == {d \in Rows : d = h}

\* ... WHERE content_hash = $1 OR processed_content_hash = $2
\*        OR watermarked_content_hash = $3
RowsByContentHash(h) ==
    {d \in Rows : \/ docs[d].content_hash = h
                  \/ docs[d].processed_content_hash = h
                  \/ docs[d].watermarked_content_hash = h}

\* ... WHERE original_file_name LIKE $1 OR processed_file_path LIKE $2
\*        OR watermarked_file_path LIKE $3
RowsByFileName(base) ==
    {d \in Rows : \/ Like(docs[d].original_file_name, base)
                  \/ Like(PathStr(docs[d].processed_file_path), base)
                  \/ /\ docs[d].watermarked_file_path # NoPath
                     /\ Like(PathStr(docs[d].watermarked_file_path), base)}

\* lines 116-126: metadata is read only when the declared type is PDF
Extracted(bytes) ==
    IF MimeOf(bytes.kind) = "application/pdf"
    THEN extractHashFromPDF(bytes)
    ELSE [hash |-> Nil, isWatermarked |-> FALSE]

\* lines 128-170: the rows originalDocument may end up as: rows[0] of an
\* unordered query is any matching row; the file-name query takes the newest
Resolve(bytes, stem) ==
    LET ex == Extracted(bytes)
        byEmb == IF ex.hash # Nil THEN RowsByDocumentHash(ex.hash) ELSE {}
        byContent == RowsByContentHash(KeccakBytes(bytes))
        byName == RowsByFileName(FuzzyBaseName(stem, ExtOf(bytes.kind)))
    IN IF byEmb # {} THEN byEmb
       ELSE IF byContent # {} THEN byContent
       ELSE IF byName # {} THEN {Max(byName)}
       ELSE {Nil}

HashOfFile(fs, p) == KeccakBytes(fs[p])

updateDocumentHashesMutantMarksVerified(row, fs) ==
    [row EXCEPT
        !.verified = TRUE,
        !.processed_content_hash =
            IF @ = Nil /\ Readable(fs, row.processed_file_path)
            THEN HashOfFile(fs, row.processed_file_path) ELSE @,
        !.content_hash =
            IF @ = Nil /\ Readable(fs, row.original_file_path)
            THEN HashOfFile(fs, row.original_file_path) ELSE @,
        !.watermarked_content_hash =
            IF @ = Nil /\ Readable(fs, row.watermarked_file_path)
            THEN HashOfFile(fs, row.watermarked_file_path) ELSE @]

updateDocumentHashesMutantAllOrNothing(row, fs) ==
    IF \A p \in {row.processed_file_path, row.original_file_path, row.watermarked_file_path} :
          p = NoPath \/ Readable(fs, p)
    THEN [row EXCEPT
            !.processed_content_hash =
                IF @ = Nil /\ Readable(fs, row.processed_file_path)
                THEN HashOfFile(fs, row.processed_file_path) ELSE @,
            !.content_hash =
                IF @ = Nil /\ Readable(fs, row.original_file_path)
                THEN HashOfFile(fs, row.original_file_path) ELSE @,
            !.watermarked_content_hash =
                IF @ = Nil /\ Readable(fs, row.watermarked_file_path)
                THEN HashOfFile(fs, row.watermarked_file_path) ELSE @]
    ELSE row

\* updateDocumentHashes(document, db): fills in each missing hash whose file
\* can be read
updateDocumentHashes(row, fs) ==
    [row EXCEPT
        !.processed_content_hash =
            IF @ = Nil /\ Readable(fs, row.processed_file_path)
            THEN HashOfFile(fs, row.processed_file_path) ELSE @,
        !.content_hash =
            IF @ = Nil /\ Readable(fs, row.original_file_path)
            THEN HashOfFile(fs, row.original_file_path) ELSE @,
        !.watermarked_content_hash =
            IF @ = Nil /\ Readable(fs, row.watermarked_file_path)
            THEN HashOfFile(fs, row.watermarked_file_path) ELSE @]

Integrity(authentic, confidence, documentType, tamperType, uploadedHash, alg, wm, version) ==
    [authentic |-> authentic, tampered |-> ~authentic, confidence |-> confidence,
     documentType |-> documentType, tamperType |-> tamperType,
     uploadedHash |-> uploadedHash, hashAlgorithm |-> alg, isWatermarked |-> wm,
     expectedVersion |-> version]

\* lines 468-498: the variant to compare against; a variant whose file cannot
\* be read leaves expectedSize 0 and versionType undefined; with no hash at
\* all expectedSize is undefined (sized FALSE)
ExpectedVersion(row, fs) ==
    LET pick(p, name) ==
            IF Readable(fs, p)
            THEN [sized |-> TRUE, size |-> fs[p].size, version |-> name]
            ELSE [sized |-> TRUE, size |-> 0, version |-> ""]
    IN IF row.watermarked_content_hash # Nil
       THEN pick(row.watermarked_file_path, "watermarked")
       ELSE IF row.processed_content_hash # Nil
       THEN pick(row.processed_file_path, "processed")
       ELSE IF row.content_hash # Nil
       THEN pick(row.original_file_path, "original")
       ELSE [sized |-> FALSE, size |-> 0, version |-> ""]

Abs(x) == IF x < 0 THEN -x ELSE x

detectTamperingMutantRatioFirst(bytes, uploadedHash, row, mime, isWatermarked, fs) ==
    LET e == ExpectedVersion(row, fs)
        \* sizeDifference is NaN when expectedSize is undefined
        sizeDifference == Abs(bytes.size - e.size)
        \* sizeRatio < r, for r = num / 100
        ratioBelow(num) ==
            e.sized /\ e.size > 0 /\ sizeDifference * 100 < num * e.size
        wfile == row.watermarked_file_path
        \* 0 stands for undefined
        expectedPageCount ==
            IF e.version = "watermarked" /\ wfile # NoPath /\ Readable(fs, wfile)
               /\ IsPdf(fs[wfile])
            THEN fs[wfile].pages ELSE 0
        tag(t, c) == Integrity(FALSE, c, "", t, uploadedHash,
                               "Keccak-256 (Ethereum standard)", isWatermarked, e.version)
    IN IF mime = "application/pdf"
       THEN IF ~IsPdf(bytes) THEN tag("STRUCTURE_CORRUPTION", 100)
            ELSE IF expectedPageCount # 0 /\ bytes.pages # expectedPageCount
            THEN tag("PAGE_MODIFICATION", 100)
            ELSE IF isWatermarked /\ e.version # "watermarked"
            THEN tag("WATERMARK_MISMATCH", 85)
            ELSE IF ~isWatermarked /\ e.version = "watermarked"
            THEN tag("WATERMARK_REMOVAL", 95)
            ELSE IF ratioBelow(1) THEN tag("MINOR_MODIFICATION", 70)
            ELSE tag("CONTENT_MODIFICATION", 95)
       ELSE IF ratioBelow(5) THEN tag("MINOR_MODIFICATION", 85)
            ELSE IF e.sized /\ sizeDifference = 0 THEN tag("CONTENT_REPLACEMENT", 100)
            ELSE tag("MAJOR_MODIFICATION", 100)

detectTamperingMutantSizeFirst(bytes, uploadedHash, row, mime, isWatermarked, fs) ==
    LET e == ExpectedVersion(row, fs)
        \* sizeDifference is NaN when expectedSize is undefined
        sizeDifference == Abs(bytes.size - e.size)
        \* sizeRatio < r, for r = num / 100
        ratioBelow(num) ==
            e.sized /\ e.size > 0 /\ sizeDifference * 100 < num * e.size
        wfile == row.watermarked_file_path
        \* 0 stands for undefined
        expectedPageCount ==
            IF e.version = "watermarked" /\ wfile # NoPath /\ Readable(fs, wfile)
               /\ IsPdf(fs[wfile])
            THEN fs[wfile].pages ELSE 0
        tag(t, c) == Integrity(FALSE, c, "", t, uploadedHash,
                               "Keccak-256 (Ethereum standard)", isWatermarked, e.version)
    IN IF mime = "application/pdf"
       THEN IF ~IsPdf(bytes) THEN tag("STRUCTURE_CORRUPTION", 100)
            ELSE IF expectedPageCount # 0 /\ bytes.pages # expectedPageCount
            THEN tag("PAGE_MODIFICATION", 100)
            ELSE IF ratioBelow(1) THEN tag("MINOR_MODIFICATION", 70)
            ELSE IF isWatermarked /\ e.version # "watermarked"
            THEN tag("WATERMARK_MISMATCH", 85)
            ELSE IF ~isWatermarked /\ e.version = "watermarked"
            THEN tag("WATERMARK_REMOVAL", 95)
            ELSE tag("CONTENT_MODIFICATION", 95)
       ELSE IF e.sized /\ sizeDifference = 0 THEN tag("CONTENT_REPLACEMENT", 100)
            ELSE IF ratioBelow(5) THEN tag("MINOR_MODIFICATION", 85)
            ELSE tag("MAJOR_MODIFICATION", 100)

detectTamperingMutantNoMinor(bytes, uploadedHash, row, mime, isWatermarked, fs) ==
    LET e == ExpectedVersion(row, fs)
        \* sizeDifference is NaN when expectedSize is undefined
        sizeDifference == Abs(bytes.size - e.size)
        \* sizeRatio < r, for r = num / 100
        ratioBelow(num) ==
            e.sized /\ e.size > 0 /\ sizeDifference * 100 < num * e.size
        wfile == row.watermarked_file_path
        \* 0 stands for undefined
        expectedPageCount ==
            IF e.version = "watermarked" /\ wfile # NoPath /\ Readable(fs, wfile)
               /\ IsPdf(fs[wfile])
            THEN fs[wfile].pages ELSE 0
        tag(t, c) == Integrity(FALSE, c, "", t, uploadedHash,
                               "Keccak-256 (Ethereum standard)", isWatermarked, e.version)
    IN IF mime = "application/pdf"
       THEN IF ~IsPdf(bytes) THEN tag("STRUCTURE_CORRUPTION", 100)
            ELSE IF expectedPageCount # 0 /\ bytes.pages # expectedPageCount
            THEN tag("PAGE_MODIFICATION", 100)
            ELSE IF isWatermarked /\ e.version # "watermarked"
            THEN tag("WATERMARK_MISMATCH", 85)
            ELSE IF ~isWatermarked /\ e.version = "watermarked"
            THEN tag("WATERMARK_REMOVAL", 95)
            ELSE tag("CONTENT_MODIFICATION", 95)
       ELSE IF e.sized /\ sizeDifference = 0 THEN tag("CONTENT_REPLACEMENT", 100)
            ELSE IF ratioBelow(5) THEN tag("MINOR_MODIFICATION", 85)
            ELSE tag("MAJOR_MODIFICATION", 100)

\* detectTamperingWithWatermarkAwareness
detectTampering(bytes, uploadedHash, row, mime, isWatermarked, fs) ==
    LET e == ExpectedVersion(row, fs)
        \* sizeDifference is NaN when expectedSize is undefined
        sizeDifference == Abs(bytes.size - e.size)
        \* sizeRatio < r, for r = num / 100
        ratioBelow(num) ==
            e.sized /\ e.size > 0 /\ sizeDifference * 100 < num * e.size
        wfile == row.watermarked_file_path
        \* 0 stands for undefined
        expectedPageCount ==
            IF e.version = "watermarked" /\ wfile # NoPath /\ Readable(fs, wfile)
               /\ IsPdf(fs[wfile])
            THEN fs[wfile].pages ELSE 0
        tag(t, c) == Integrity(FALSE, c, "", t, uploadedHash,
                               "Keccak-256 (Ethereum standard)", isWatermarked, e.version)
    IN IF mime = "application/pdf"
       THEN IF ~IsPdf(bytes) THEN tag("STRUCTURE_CORRUPTION", 100)
            ELSE IF expectedPageCount # 0 /\ bytes.pages # expectedPageCount
            THEN tag("PAGE_MODIFICATION", 100)
            ELSE IF isWatermarked /\ e.version # "watermarked"
            THEN tag("WATERMARK_MISMATCH", 85)
            ELSE IF ~isWatermarked /\ e.version = "watermarked"
            THEN tag("WATERMARK_REMOVAL", 95)
            ELSE IF ratioBelow(1) THEN tag("MINOR_MODIFICATION", 70)
            ELSE tag("CONTENT_MODIFICATION", 95)
       ELSE IF e.sized /\ sizeDifference = 0 THEN tag("CONTENT_REPLACEMENT", 100)
            ELSE IF ratioBelow(5) THEN tag("MINOR_MODIFICATION", 85)
            ELSE tag("MAJOR_MODIFICATION", 100)

verifyDocumentIntegrityMutantSkipsOriginal(bytes, uploadedHash, row, mime, isWatermarked, fs) ==
    LET match(t) == Integrity(TRUE, 100, t, "", uploadedHash, "", FALSE, "")
    IN IF row.verified /\ row.watermarked_content_hash # Nil
          /\ uploadedHash = row.watermarked_content_hash
       THEN match("watermarked_verified")
       ELSE IF row.processed_content_hash # Nil /\ uploadedHash = row.processed_content_hash
       THEN match("processed")
       ELSE detectTampering(bytes, uploadedHash, row, mime, isWatermarked, fs)

\* verifyDocumentIntegrity
verifyDocumentIntegrity(bytes, uploadedHash, row, mime, isWatermarked, fs) ==
    LET match(t) == Integrity(TRUE, 100, t, "", uploadedHash, "", FALSE, "")
    IN IF row.verified /\ row.watermarked_content_hash # Nil
          /\ uploadedHash = row.watermarked_content_hash
       THEN match("watermarked_verified")
       ELSE IF row.processed_content_hash # Nil /\ uploadedHash = row.processed_content_hash
       THEN match("processed")
       ELSE IF row.content_hash # Nil /\ uploadedHash = row.content_hash
       THEN match("original")
       ELSE detectTampering(bytes, uploadedHash, row, mime, isWatermarked, fs)


\* the stems of the names an upload may carry
UploadStems == SeqsUpTo(NameSyms, MaxNameLen)

\* PDFs whose metadata the uploader wrote: a subject that is a hash, the
\* watermark markers around a hash, or keywords alone
CraftedPdfs ==
    {Content("pdf", 0, Nil, FALSE, "hash", h, Nil, FALSE, 100, 1) : h \in DocHashes \cup {BogusHash}}
    \cup {Content("pdf", 0, Nil, FALSE, "verified", BogusHash, Nil, FALSE, 100, 1),
          Content("pdf", 0, Nil, FALSE, "none", Nil, BogusHash, TRUE, 100, 1)}

\* the bytes an upload may carry: any stored file, the JSON text of a stored
\* document's data, fresh files, crafted PDFs and bytes that are no PDF at all
UploadContents ==
    {files[p] : p \in {q \in AllPaths : files[q] # NoFile}}
    \cup {JsonOf(d) : d \in Rows}
    \cup ProcUploads
    \cup CraftedPdfs
    \cup {Raw("badpdf", 0, 100, 0)}

\* a stored file after tampering: its payload changed, delta bytes added, dp
\* pages added, its PDF metadata kept or stripped
Altered(f, delta, dp, keepMeta) ==
    [f EXCEPT !.body = AlteredBody,
              !.size = @ + delta,
              !.pages = IF f.kind = "pdf" THEN @ + dp ELSE @,
              !.subj = IF keepMeta THEN @ ELSE "none",
              !.sh = IF keepMeta THEN @ ELSE Nil,
              !.kh = IF keepMeta THEN @ ELSE Nil,
              !.bv = IF keepMeta THEN @ ELSE FALSE]

Deltas == {0, 1, 3, 30}

TamperContents ==
    {Altered(files[p], delta, dp, km) :
        p \in {q \in AllPaths : files[q] # NoFile}, delta \in Deltas, dp \in {0, 1},
        km \in BOOLEAN}
    \cup CraftedPdfs
    \cup {Raw("badpdf", 0, 100, 0)}

UploadResp(status) == [NoResp EXCEPT !.op = "upload", !.status = status]

\* lines 172-188
NotFoundResp(uploadedHash) ==
    [UploadResp(200) EXCEPT !.verificationStatus = "NOT_FOUND",
                            !.error = "Document not found in verification database",
                            !.uploadedHash = uploadedHash]

\* lines 209-244
NotVerifiedResp(d) ==
    [UploadResp(200) EXCEPT !.success = TRUE, !.verificationStatus = "NOT_VERIFIED",
                            !.confidence = 100, !.documentHash = d, !.verified = "false"]

\* lines 272-281: what the catch block puts in verificationDetails
ComparisonFailed == Integrity(FALSE, 0, "", "", Nil, "", FALSE, "")

\* lines 286-307
IntegrityResp(d, row, v) ==
    [UploadResp(200) EXCEPT
        !.success = TRUE,
        !.verificationStatus = IF v.authentic THEN "AUTHENTIC" ELSE "TAMPERED",
        !.authentic = v.authentic, !.tampered = v.tampered,
        !.confidence = v.confidence, !.tamperType = v.tamperType,
        !.documentType = v.documentType, !.uploadedHash = v.uploadedHash,
        !.hashAlgorithm = v.hashAlgorithm, !.isWatermarked = v.isWatermarked,
        !.expectedVersion = v.expectedVersion, !.documentHash = d,
        !.verified = IF row.verified THEN "true" ELSE "false",
        !.transactionHash = row.blockchain_tx_hash, !.block_number = row.block_number]

UploadReq(bytes, stem, rpcOk, dbFault) ==
    [NoReq EXCEPT !.op = "upload", !.bytes = bytes, !.stem = stem, !.rpcOk = rpcOk,
                  !.dbFault = dbFault]

\* the handler from the ledger check on, for the row it resolved
VerifyResolved(bytes, stem, d) ==
    \E rpcOk \in BOOLEAN :
        IF ~Truthy(BlockchainVerified(d, rpcOk))
        THEN /\ req' = UploadReq(bytes, stem, rpcOk, "none")
             /\ resp' = NotVerifiedResp(d)
             /\ UNCHANGED docs
        ELSE \E dbFault \in {"none", "refetch"} :
                LET updated == updateDocumentHashes(docs[d], files)
                    v == IF dbFault = "refetch" THEN ComparisonFailed
                         ELSE verifyDocumentIntegrity(bytes, KeccakBytes(bytes), updated,
                                                      MimeOf(bytes.kind),
                                                      Extracted(bytes).isWatermarked, files)
                IN /\ req' = UploadReq(bytes, stem, rpcOk, dbFault)
                   /\ docs' = [docs EXCEPT ![d] = updated]
                   /\ resp' = IntegrityResp(d, docs[d], v)

VerifyUpload(bytes, stem) ==
    /\ resp = NoResp
    /\ UNCHANGED <<enc, rest>>
    /\ \E d \in Resolve(bytes, stem) :
          IF d = Nil
          THEN /\ req' = UploadReq(bytes, stem, TRUE, "none")
               /\ resp' = NotFoundResp(KeccakBytes(bytes))
               /\ UNCHANGED docs
          ELSE VerifyResolved(bytes, stem, d)
    /\ UNCHANGED <<files, ledger, txCount, chain, nextDoc, lost, fin>>

\* the request carries no file (line 103), or a query of the look-up fails
\* and the outer catch answers (lines 309-321)
VerifyUploadRejected(status) ==
    /\ resp = NoResp
    /\ UNCHANGED <<enc, rest>>
    /\ req' = [NoReq EXCEPT !.op = "upload", !.dbFault = IF status = 500 THEN "lookup" ELSE "none"]
    /\ resp' = [UploadResp(status) EXCEPT !.error = IF status = 500
                                                     THEN "Failed to verify document"
                                                     ELSE "No file uploaded"]
    /\ UNCHANGED <<docs, files, ledger, txCount, chain, nextDoc, lost, fin>>

-----------------------------------------------------------------------------
(* The system: requests are answered one at a time *)

\* the result of an encoder is kept: the first one, and the latest one
Encoded(e, content) ==
    [enc EXCEPT !.first[e] = IF @ = NotEncoded THEN content ELSE @, !.last[e] = content]

\* the PDF pipeline encodes the issuance data (DocumentController.js line 37,
\* PDFService.js line 175)
EncodePdf ==
    /\ enc' = Encoded("pdf", generateDocumentContent(enc.data))
    /\ UNCHANGED <<docs, files, ledger, txCount, chain, nextDoc, lost, req, resp, fin, rest>>

\* the Word pipeline encodes the data when a draft is finalized (part_002
\* lines 236-239)
EncodeWord ==
    /\ enc' = Encoded("word",
                      createStandardizedContent(
                          prepareTemplateData(enc.data, enc.placeholders, enc.now),
                          enc.data, enc.now))
    /\ UNCHANGED <<docs, files, ledger, txCount, chain, nextDoc, lost, req, resp, fin, rest>>

\* the encoder for the data a Word template was filled with
EncodeTemplateData ==
    /\ enc' = Encoded("template",
                      createStandardizedContentFromTemplateData(
                          prepareTemplateData(enc.data, enc.placeholders, enc.now), enc.now))
    /\ UNCHANGED <<docs, files, ledger, txCount, chain, nextDoc, lost, req, resp, fin, rest>>

\* time passes
Tick ==
    /\ enc.now < MaxClock
    /\ enc' = [enc EXCEPT !.now = @ + 1]
    /\ UNCHANGED <<docs, files, ledger, txCount, chain, nextDoc, lost, req, resp, fin, rest>>

-----------------------------------------------------------------------------
\* issuance and verification while the service keeps running, with every
\* upload name and every kind of uploaded bytes
Next ==
    \/ \E u \in ProcUploads, stem \in ProcStems : Process(u, stem)
    \/ \E d \in {Nil} \cup DocHashes, rpc \in RpcOutcomes : Finalize(d, rpc)
    \/ \E h \in DocHashes \cup {BogusHash}, rpcOk \in BOOLEAN : VerifyHash(h, rpcOk)
    \/ \E bytes \in UploadContents, stem \in UploadStems : VerifyUpload(bytes, stem)
    \/ \E status \in {400, 500} : VerifyUploadRejected(status)
    \/ Deliver

Spec == Init /\ [][Next]_vars

\* the same with restarts and lost files, for PDFs and images; uploads carry
\* the bytes of a stored file under one name
EnvStems == {<<"z">>}
EnvUploads == {u \in ProcUploads : u.kind \in {"pdf", "img"}}
EnvContents == {files[p] : p \in {q \in AllPaths : files[q] # NoFile}}

NextEnv ==
    \/ \E u \in EnvUploads, stem \in EnvStems : Process(u, stem)
    \/ \E d \in DocHashes, rpc \in RpcOutcomes : Finalize(d, rpc)
    \/ \E h \in DocHashes, rpcOk \in BOOLEAN : VerifyHash(h, rpcOk)
    \/ \E bytes \in EnvContents, stem \in EnvStems : VerifyUpload(bytes, stem)
    \/ Restart
    \/ \E p \in AllPaths : LoseFile(p)
    \/ Deliver

SpecEnv == Init /\ [][NextEnv]_vars

\* issuance with two callers whose finalize requests may overlap; no call to
\* the node fails and no file is lost
NextConc ==
    \/ \E u \in ProcUploads, stem \in EnvStems : Process(u, stem)
    \/ \E c \in Callers, d \in Rows : FinStart(c, d)
    \/ \E c \in Callers : FinRegister(c)
    \/ \E c \in Callers : FinWatermark(c)
    \/ \E c \in Callers : FinUpdate(c)
    \/ \E c \in Callers : FinReturn(c)
    \/ Deliver

SpecConc == Init /\ [][NextConc]_vars

\* issuance of PDFs and images, and uploads of tampered copies of the stored
\* files under the stored name
NextTamper ==
    \/ \E u \in EnvUploads, stem \in EnvStems : Process(u, stem)
    \/ \E d \in DocHashes, rpc \in RpcOutcomes : Finalize(d, rpc)
    \/ \E bytes \in TamperContents, stem \in EnvStems : VerifyUpload(bytes, stem)
    \/ Deliver

SpecTamper == Init /\ [][NextTamper]_vars

\* the issuance flows, with restarts that change whether the blockchain
\* service is available
NextIssue ==
    \/ \E u \in EnvUploads, stem \in EnvStems : Process(u, stem)
    \/ \E d \in {Nil} \cup DocHashes, rpc \in RpcOutcomes : Finalize(d, rpc)
    \/ \E express \in ExpressVersions : ProcessRequest(express)
    \/ Restart
    \/ Deliver

SpecIssue == Init /\ [][NextIssue]_vars

\* the encoders applied to one set of issuance data, at the time of issuance
\* and later
InitEncode ==
    /\ docs = [d \in DocHashes |-> NoRow]
    /\ files = [p \in AllPaths |-> NoFile]
    /\ ledger = [d \in DocHashes |-> NoLedgerRecord]
    /\ txCount = 0
    /\ chain = Chain(TRUE, TRUE, 0)
    /\ nextDoc = 0
    /\ lost = 0
    /\ req = NoReq
    /\ resp = NoResp
    /\ fin = [c \in {1, 2} |-> Idle]
    /\ enc \in {EncStart(data, placeholders) :
                   data \in IssuanceData, placeholders \in {Placeholders, Placeholders \ {"issue_date"}}}
    /\ db = TRUE
    /\ InitRest

NextEncode ==
    \/ EncodePdf
    \/ EncodeWord
    \/ EncodeTemplateData
    \/ Tick

SpecEncode == InitEncode /\ [][NextEncode]_vars

(* The template workflow (routes/templates.js): drafts, finalized documents *)

core == <<docs, files, ledger, chain, nextDoc, lost, req, resp, fin, enc>>

TemplateResp(op, id, status) == [op |-> op, id |-> id, status |-> status]

\* the text that finalize hashes: the edited file when there is one, otherwise
\* draft.content || JSON.stringify(draft.studentData); a draft made without a
\* database or by an upload has neither filePath nor content
DraftContent(draft) ==
    IF draft.editedFilePath # 0 THEN <<"file", draft.editedFilePath>>
    ELSE <<"studentData", draft.studentData>>

TemplateKeccak(content) ==
    IF content[1] = "file" THEN 2 + content[2] ELSE 1 + content[2]

\* POST /api/templates/:templateId/draft. With a database the handler calls
\* db.execute, which DatabaseService does not have: the TypeError is answered
\* 500. Without one the draft is kept in memory under draft_<Date.now()>, an
\* id later than those in use.
CreateDraft(d) ==
    /\ ~draftsStore[d].exists
    /\ IF db
       THEN /\ templateResp' = TemplateResp("draft", 0, 500)
            /\ UNCHANGED draftsStore
       ELSE /\ draftsStore' = [draftsStore EXCEPT ![d] =
                   [exists |-> TRUE, studentData |-> 1, status |-> "draft", editedFilePath |-> 0]]
            /\ templateResp' = TemplateResp("draft", d, 200)
    /\ UNCHANGED <<finalizedStore, templateLedger, db, txCount, core, authVars, requestVars>>

\* POST /api/templates/draft/:draftId/upload with file e (0: no file), which
\* mammoth can read or not. An unknown draftId gets a new draft; a known
\* draft is the object held by the Map and is changed in place before the
\* file is read.
UploadEditedDraft(d, e, readable) ==
    /\ IF e = 0
       THEN /\ templateResp' = TemplateResp("upload", d, 400)
            /\ UNCHANGED draftsStore
       ELSE LET draft == IF draftsStore[d].exists THEN draftsStore[d]
                         ELSE [exists |-> TRUE, studentData |-> 0, status |-> "editing",
                               editedFilePath |-> 0]
                edited == [draft EXCEPT !.editedFilePath = e, !.status = "edited"]
            IN IF readable
               THEN /\ draftsStore' = [draftsStore EXCEPT ![d] = edited]
                    /\ templateResp' = TemplateResp("upload", d, 200)
               ELSE /\ draftsStore' = IF draftsStore[d].exists
                                      THEN [draftsStore EXCEPT ![d] = edited]
                                      ELSE draftsStore
                    /\ templateResp' = TemplateResp("upload", d, 500)
    /\ UNCHANGED <<finalizedStore, templateLedger, db, txCount, core, authVars, requestVars>>

\* the latest finalized id in use (ids are final_<Date.now()>)
LatestFinalized ==
    LET used == {f \in FinalizedIds : finalizedStore[f].exists}
    IN IF used = {} THEN 1 ELSE CHOOSE f \in used : \A g \in used : g <= f

\* POST /api/templates/draft/:draftId/finalize at millisecond now: the status
\* of the draft is not read and the draft is not changed; the INSERT through
\* db.execute fails and is only logged
FinalizeDraft(d, now) ==
    /\ now >= LatestFinalized
    /\ IF ~draftsStore[d].exists
       THEN /\ templateResp' = TemplateResp("finalize", d, 404)
            /\ UNCHANGED finalizedStore
       ELSE /\ finalizedStore' = [finalizedStore EXCEPT ![now] =
                   [exists |-> TRUE, draftId |-> d, status |-> "finalized",
                    contentHash |-> TemplateKeccak(DraftContent(draftsStore[d]))]]
            /\ templateResp' = TemplateResp("finalize", d, 200)
    /\ UNCHANGED <<draftsStore, templateLedger, db, txCount, core, authVars, requestVars>>

\* POST /api/templates/finalized/:finalizedId/register
RegisterFinalized(f, rpc) ==
    /\ IF ~finalizedStore[f].exists
       THEN /\ templateResp' = TemplateResp("register", f, 404)
            /\ UNCHANGED <<templateLedger, txCount>>
       ELSE IF ~chain.initialized
       THEN /\ templateResp' = TemplateResp("register", f, 503)
            /\ UNCHANGED <<templateLedger, txCount>>
       ELSE LET r == registerDocument(templateLedger, txCount, finalizedStore[f].contentHash, rpc)
            IN /\ templateLedger' = r.ledger
               /\ txCount' = r.txCount
               /\ templateResp' = TemplateResp("register", f, IF r.success THEN 200 ELSE 500)
    /\ UNCHANGED <<draftsStore, finalizedStore, db, core, authVars, requestVars>>

\* the server is restarted: the Maps are empty again, and initializeServices
\* decides anew whether the blockchain service is available
TemplateRestart ==
    /\ db
    /\ chain.restarts < MaxRestarts
    /\ \E <<i, sg>> \in ChainStates :
          /\ <<i, sg>> # <<chain.initialized, chain.signer>>
          /\ chain' = Chain(i, sg, chain.restarts + 1)
    /\ draftsStore' = [d \in DraftIds |-> NoDraft]
    /\ finalizedStore' = [f \in FinalizedIds |-> NoFinalized]
    /\ templateResp' = NoTemplateResp
    /\ UNCHANGED <<templateLedger, db, txCount, docs, files, ledger, nextDoc, lost, req, resp, fin, enc, authVars, requestVars>>

\* initializeServices: when the database cannot be reached (and the error does
\* not name it) the server runs without app.locals.db and without a
\* blockchain service
InitTemplate ==
    /\ docs = [d \in DocHashes |-> NoRow]
    /\ files = [p \in AllPaths |-> NoFile]
    /\ ledger = [d \in DocHashes |-> NoLedgerRecord]
    /\ txCount = 0
    /\ db \in BOOLEAN
    /\ chain \in {Chain(i, sg, 0) : <<i, sg>> \in IF db THEN ChainStates ELSE {<<FALSE, FALSE>>}}
    /\ nextDoc = 0
    /\ lost = 0
    /\ req = NoReq
    /\ resp = NoResp
    /\ fin = [c \in {1, 2} |-> Idle]
    /\ enc = NoEnc
    /\ InitRest

NextTemplate ==
    \/ \E d \in DraftIds : CreateDraft(d)
    \/ \E d \in DraftIds, e \in 0..MaxEdits, readable \in BOOLEAN : UploadEditedDraft(d, e, readable)
    \/ \E d \in DraftIds, now \in FinalizedIds : FinalizeDraft(d, now)
    \/ \E f \in FinalizedIds, rpc \in RpcOutcomes : RegisterFinalized(f, rpc)
    \/ TemplateRestart

SpecTemplate == InitTemplate /\ [][NextTemplate]_vars

(* Admin authentication (routes/auth.js): login, lockout, sessions *)

AuthResp(op, k, s, status, error) ==
    [op |-> op, key |-> k, session |-> s, status |-> status, error |-> error]

isAccountLocked(attempts, k, t) ==
    attempts[k].exists /\ attempts[k].lockedUntil # 0 /\ attempts[k].lockedUntil > t

\* recordLoginAttempt(username, ip, success) at time t: the Map afterwards
recordLoginAttempt(attempts, k, success, t) ==
    IF success THEN [attempts EXCEPT ![k] = NoAttempts]
    ELSE LET count == attempts[k].count + 1
         IN [attempts EXCEPT ![k] =
                [exists |-> TRUE, count |-> count,
                 lockedUntil |-> IF count >= MAX_LOGIN_ATTEMPTS THEN t + LOCKOUT_DURATION
                                 ELSE attempts[k].lockedUntil]]

\* the setInterval callback: expired lockouts are deleted
CleanedUp(attempts, t) ==
    [k \in Keys |-> IF attempts[k].exists /\ attempts[k].lockedUntil # 0 /\ attempts[k].lockedUntil < t
                    THEN NoAttempts ELSE attempts[k]]

authenticateTokenMutantNoSessionCheck(s, verifies, sessions) ==
    IF s = 0 THEN [status |-> 401, error |-> "Authentication required"]
    ELSE IF ~verifies THEN [status |-> 403, error |-> "Invalid or expired token"]
    ELSE [status |-> 200, error |-> ""]

\* authenticateToken with a token that names session s (0: no token) and that
\* jwt.verify accepts or not (signature, expiry after 30 minutes); the status
\* it answers, 200 standing for next()
authenticateToken(s, verifies, sessions) ==
    IF s = 0 THEN [status |-> 401, error |-> "Authentication required"]
    ELSE IF ~verifies THEN [status |-> 403, error |-> "Invalid or expired token"]
    ELSE IF s \notin sessions THEN [status |-> 403, error |-> "Session expired"]
    ELSE [status |-> 200, error |-> ""]

\* the tokens a client can send: none, one handed out by a login (expired or
\* not), or one that was not signed by the server
Bearers == {<<s, verifies>> \in ({0} \cup SessionIds) \X BOOLEAN : verifies => s \in tokens}

Credentials == {"missing", "correct", "wrong", "nouser"}

\* POST /api/auth/admin/login up to the first await (db.query)
LoginStart(c, k, cred) ==
    /\ login[c].pc = "idle"
    /\ IF cred = "missing"
       THEN /\ authResp' = AuthResp("login", k, 0, 400, "Username and password are required")
            /\ UNCHANGED login
       ELSE IF isAccountLocked(loginAttempts, k, clock)
       THEN /\ authResp' = AuthResp("login", k, 0, 429, "Account temporarily locked")
            /\ UNCHANGED login
       ELSE /\ login' = [login EXCEPT ![c] = [pc |-> "query", key |-> k, credentials |-> cred]]
            /\ authResp' = NoAuthResp
    /\ UNCHANGED <<clock, loginAttempts, activeSessions, tokens, templateVars, requestVars, txCount, core>>

\* the rest of the handler, after db.query and bcrypt.compare have answered
LoginFinish(c, dbOk) ==
    /\ login[c].pc = "query"
    /\ login' = [login EXCEPT ![c] = NoLogin]
    /\ LET k == login[c].key
           cred == login[c].credentials
           failed == recordLoginAttempt(loginAttempts, k, FALSE, clock)
       IN IF ~dbOk
          THEN /\ authResp' = AuthResp("login", k, 0, 500, "Login failed")
               /\ UNCHANGED <<loginAttempts, activeSessions, tokens>>
          ELSE IF cred = "nouser"
          THEN /\ loginAttempts' = failed
               /\ authResp' = AuthResp("login", k, 0, 401, "Invalid credentials")
               /\ UNCHANGED <<activeSessions, tokens>>
          ELSE IF cred = "wrong"
          THEN /\ loginAttempts' = failed
               /\ authResp' = IF failed[k].lockedUntil # 0
                              THEN AuthResp("login", k, 0, 429, "Too many failed attempts")
                              ELSE AuthResp("login", k, 0, 401, "Invalid credentials")
               /\ UNCHANGED <<activeSessions, tokens>>
          ELSE \E s \in SessionIds :
                  /\ s \notin tokens
                  /\ \A s2 \in SessionIds : s2 < s => s2 \in tokens
                  /\ loginAttempts' = recordLoginAttempt(loginAttempts, k, TRUE, clock)
                  /\ tokens' = tokens \cup {s}
                  /\ activeSessions' = activeSessions \cup {s}
                  /\ authResp' = AuthResp("login", k, s, 200, "")
    /\ UNCHANGED <<clock, templateVars, requestVars, txCount, core>>

\* POST /api/auth/logout with the token of session s
Logout(s, verifies) ==
    /\ <<s, verifies>> \in Bearers
    /\ LET r == authenticateToken(s, verifies, activeSessions)
       IN /\ authResp' = AuthResp("logout", 0, s, r.status, r.error)
          /\ activeSessions' = IF r.status = 200 THEN activeSessions \ {s} ELSE activeSessions
    /\ UNCHANGED <<clock, loginAttempts, tokens, login, templateVars, requestVars, txCount, core>>

\* GET /api/auth/session-info with the token of session s
SessionInfo(s, verifies) ==
    /\ <<s, verifies>> \in Bearers
    /\ LET r == authenticateToken(s, verifies, activeSessions)
       IN authResp' = AuthResp("session-info", 0, s, r.status, r.error)
    /\ UNCHANGED <<clock, loginAttempts, activeSessions, tokens, login, templateVars, requestVars, txCount, core>>

\* the periodic clean-up of loginAttempts, at some moment of the minute
Cleanup ==
    /\ CleanedUp(loginAttempts, clock) # loginAttempts
    /\ loginAttempts' = CleanedUp(loginAttempts, clock)
    /\ UNCHANGED <<clock, activeSessions, tokens, login, authResp, templateVars, requestVars, txCount, core>>

\* time passes: a minute, or all but the last minute of a lockout
Delays == {1, LOCKOUT_DURATION - 1}

Wait(delay) ==
    /\ clock + delay <= MaxTime
    /\ clock' = clock + delay
    /\ UNCHANGED <<loginAttempts, activeSessions, tokens, login, authResp, templateVars, requestVars, txCount, core>>

\* the auth routes do not use the blockchain service
InitAuthRoutes == Init /\ chain = Chain(TRUE, TRUE, 0)

\* logins over time
NextLockout ==
    \/ \E c \in Clients, k \in Keys, cred \in Credentials : LoginStart(c, k, cred)
    \/ \E c \in Clients, dbOk \in BOOLEAN : LoginFinish(c, dbOk)
    \/ Cleanup
    \/ \E delay \in Delays : Wait(delay)

SpecLockout == InitAuthRoutes /\ [][NextLockout]_vars

\* logins, logouts and authenticated requests
NextSession ==
    \/ \E c \in Clients, k \in Keys, cred \in Credentials : LoginStart(c, k, cred)
    \/ \E c \in Clients, dbOk \in BOOLEAN : LoginFinish(c, dbOk)
    \/ \E s \in {0} \cup SessionIds, verifies \in BOOLEAN : Logout(s, verifies)
    \/ \E s \in {0} \cup SessionIds, verifies \in BOOLEAN : SessionInfo(s, verifies)

SpecSession == InitAuthRoutes /\ [][NextSession]_vars

(* POST /api/registrars/requests/:requestId/process, one await at a time *)

\* res.status(status).json(...) for the call of client c
Answered(c, r, status) ==
    /\ processResp' = [processResp EXCEPT ![c] = [request |-> r, status |-> status]]
    /\ calls' = [calls EXCEPT ![c] = NoCall]

\* the document_hash of the INSERT: generateDocumentHash(JSON.stringify(
\* documentData)) with dateIssued in seconds when the blockchain service is
\* initialized, 'pending_hash' otherwise
RequestDocumentHash(r, sec) == IF chain.initialized THEN <<r, sec>> ELSE <<0, 0>>

\* one step of the call of client c: from the request to the first await, or
\* from one await to the next.  db.execute(...) throws a TypeError where the
\* database object has no execute: in the try block (line 170), and again in
\* the catch block (line 266), which leaves the handler
ProcessStep(c, r, role, express, sec) ==
    /\ running
    /\ LET pc == calls[c].pc
           id == calls[c].request
       IN IF pc = "idle"
          THEN IF role = "none"
               THEN Answered(c, r, 401) /\ UNCHANGED <<requests, requestRows, running>>
               ELSE IF role # "registrar"
               THEN Answered(c, r, 403) /\ UNCHANGED <<requests, requestRows, running>>
               ELSE IF ~DatabaseServiceHasExecute
               THEN IF express = 4
                    THEN /\ running' = FALSE
                         /\ UNCHANGED <<requests, requestRows, calls, processResp>>
                    ELSE Answered(c, r, 500) /\ UNCHANGED <<requests, requestRows, running>>
               ELSE IF requests[r] # "pending"
               THEN Answered(c, r, 404) /\ UNCHANGED <<requests, requestRows, running>>
               ELSE /\ calls' = [calls EXCEPT ![c] = [pc |-> "selected", request |-> r]]
                    /\ UNCHANGED <<requests, requestRows, processResp, running>>
          ELSE IF pc = "selected"
          THEN /\ requests' = [requests EXCEPT ![id] = "processing"]
               /\ calls' = [calls EXCEPT ![c].pc = "processing"]
               /\ UNCHANGED <<requestRows, processResp, running>>
          ELSE IF pc = "processing"
          THEN LET hash == RequestDocumentHash(id, sec)
               IN IF \E row \in requestRows : row.document_hash = hash
                  THEN /\ requests' = [requests EXCEPT ![id] = "pending"]
                       /\ Answered(c, id, 500)
                       /\ UNCHANGED <<requestRows, running>>
                  ELSE /\ requestRows' = requestRows \cup {[request |-> id, document_hash |-> hash]}
                       /\ calls' = [calls EXCEPT ![c].pc = "inserted"]
                       /\ UNCHANGED <<requests, processResp, running>>
          ELSE /\ requests' = [requests EXCEPT ![id] = "completed"]
               /\ Answered(c, id, 200)
               /\ UNCHANGED <<requestRows, running>>
    /\ UNCHANGED <<templateVars, authVars, txCount, core>>

\* the requests a registrar finds in the table: waiting or dealt with
InitRequestRoutes ==
    /\ docs = [d \in DocHashes |-> NoRow]
    /\ files = [p \in AllPaths |-> NoFile]
    /\ ledger = [d \in DocHashes |-> NoLedgerRecord]
    /\ txCount = 0
    /\ chain \in {Chain(i, sg, 0) : <<i, sg>> \in ChainStates}
    /\ nextDoc = 0
    /\ lost = 0
    /\ req = NoReq
    /\ resp = NoResp
    /\ fin = [c \in {1, 2} |-> Idle]
    /\ enc = NoEnc
    /\ db = TRUE
    /\ InitStores
    /\ InitRequests
    /\ requests \in [RequestIds -> {"pending", "completed"}]

NextRequests ==
    \E c \in Clients, r \in RequestIds, role \in Roles, express \in ExpressVersions, sec \in Seconds :
        ProcessStep(c, r, role, express, sec)

SpecRequests == InitRequestRoutes /\ [][NextRequests]_vars

-----------------------------------------------------------------------------
(* Properties *)

\* an answered upload that carried a file
Uploaded == req.op = "upload" /\ resp.op = "upload" /\ resp.status = 200

\* C1: an upload that resolves to a document for whose hash the ledger holds no
\* record is answered NOT_VERIFIED with authentic = false and tampered = false,
\* never AUTHENTIC, whatever bytes it carries
C1_UnregisteredNeverAuthentic ==
    (Uploaded /\ resp.documentHash # Nil /\ ~ledger[resp.documentHash].exists)
        => /\ resp.verificationStatus = "NOT_VERIFIED"
           /\ ~resp.authentic
           /\ ~resp.tampered

\* the exact bytes of the stored processed file of an unregistered document
\* were uploaded and answered NOT_VERIFIED
C1_Witness ==
    /\ Uploaded
    /\ resp.documentHash # Nil
    /\ ~ledger[resp.documentHash].exists
    /\ req.bytes = files[docs[resp.documentHash].processed_file_path]
    /\ resp.verificationStatus = "NOT_VERIFIED"

\* C2: while the blockchain service is not initialized, or when its lookup
\* throws or returns an error, neither verification endpoint reports
\* verified = true or AUTHENTIC, and an upload that resolves to a document is
\* answered NOT_VERIFIED
C2_LedgerUnavailableFailsClosed ==
    (resp.op \in {"verify", "upload"} /\ (~chain.initialized \/ ~req.rpcOk))
        => /\ resp.verified # "true"
           /\ resp.verificationStatus # "AUTHENTIC"
           /\ (resp.op = "upload" /\ resp.documentHash # Nil
                  => resp.verificationStatus = "NOT_VERIFIED")

\* a registered, verified document is uploaded while the service is not
\* initialized, and the answer is NOT_VERIFIED
C2_Witness ==
    /\ Uploaded
    /\ ~chain.initialized
    /\ resp.documentHash # Nil
    /\ ledger[resp.documentHash].exists
    /\ docs[resp.documentHash].verified
    /\ resp.verificationStatus = "NOT_VERIFIED"

\* the ledger answers and holds the record of document d, whose row the
\* finalize handler has marked verified
Confirmed(d) ==
    docs[d].exists /\ docs[d].verified /\ ledger[d].exists /\ chain.initialized

VariantPath(d, v) ==
    CASE v = "original" -> docs[d].original_file_path
      [] v = "processed" -> docs[d].processed_file_path
      [] OTHER -> docs[d].watermarked_file_path

\* the stored variants, of confirmed documents, that consist of exactly these bytes
StoredVariants(bytes) ==
    {dv \in DocHashes \X {"original", "processed", "watermarked_verified"} :
        /\ Confirmed(dv[1])
        /\ Readable(files, VariantPath(dv[1], dv[2]))
        /\ files[VariantPath(dv[1], dv[2])] = bytes}

\* C3: uploading the exact stored bytes of the original, processed or
\* watermarked variant of a confirmed document is answered AUTHENTIC with
\* confidence 100 and a documentType naming that variant, under any file name
\* and with any other documents in the store
C3_EveryVariantAuthentic ==
    (Uploaded /\ req.rpcOk /\ req.dbFault = "none" /\ StoredVariants(req.bytes) # {})
        => /\ resp.verificationStatus = "AUTHENTIC"
           /\ resp.confidence = 100
           /\ \E dv \in StoredVariants(req.bytes) : resp.documentType = dv[2]

\* C4: a row's verified flag is true if and only if the ledger holds a record
\* for the row's document_hash
C4_VerifiedIffLedgerRecord ==
    \A d \in DocHashes : docs[d].verified <=> ledger[d].exists

\* the hash fields of row d that hold a value
HashFields(d) ==
    {d, docs[d].content_hash, docs[d].processed_content_hash,
     docs[d].watermarked_content_hash} \ {Nil}

\* the candidate hashes of an upload: its byte hash and its embedded hash
Candidates(bytes) == {KeccakBytes(bytes), Extracted(bytes).hash} \ {Nil}

\* the name of the file stored at path p
FileNameOf(p) ==
    IF p.dir = "watermarked" THEN <<HexSym(p.d), "_", "verified", p.ext>>
    ELSE <<HexSym(p.d), p.ext>>

\* neither candidate hash of the upload matches a record, and its name is not
\* the name of a stored file
Unrelated(bytes, stem) ==
    LET name == stem \o <<ExtOf(bytes.kind)>>
    IN /\ bytes # NoFile
       /\ \A d \in Rows :
            /\ Candidates(bytes) \cap HashFields(d) = {}
            /\ name # docs[d].original_file_name
            /\ \A p \in {docs[d].original_file_path, docs[d].processed_file_path,
                         docs[d].watermarked_file_path} \ {NoPath} : name # FileNameOf(p)

NameMatchesNothing(bytes, stem) ==
    LET base == StripVerified(StripHexFragment(BaseOf(stem, ExtOf(bytes.kind))))
        occurs(text) == \E k \in 0..(Len(text) - Len(base)) :
                           \A i \in 1..Len(base) : base[i] = "_" \/ base[i] = text[k + i]
    IN \A d \in Rows :
          /\ ~occurs(docs[d].original_file_name)
          /\ ~occurs(PathStr(docs[d].processed_file_path))
          /\ docs[d].watermarked_file_path # NoPath
                => ~occurs(PathStr(docs[d].watermarked_file_path))

C6_SecondFinalizeSameResult ==
    (/\ req.op = "finalize" /\ resp.op = "finalize" /\ req.rpcOk
     /\ req.hash # Nil /\ chain.initialized /\ chain.signer
     /\ docs[req.hash].verified /\ ledger[req.hash].exists)
        => /\ resp.success
           /\ resp.transactionHash = ledger[req.hash].tx
           /\ resp.transactionHash = docs[req.hash].blockchain_tx_hash
           /\ resp.block_number = docs[req.hash].block_number

\* C7: when both callers' finalize calls for one document have been answered,
\* whatever the interleaving, both answers are successes
C7_ConcurrentFinalizeBothSucceed ==
    (/\ \A c \in Callers : fin[c].pc = "done"
     /\ fin[1].hash = fin[2].hash
     /\ docs[fin[1].hash].exists
     /\ chain.initialized /\ chain.signer)
        => \A c \in Callers : fin[c].resp.success

\* C8: every upload answered TAMPERED carries authentic = false,
\* tampered = true, a tamperType and a confidence
C8_TamperedCarriesTagAndConfidence ==
    (Uploaded /\ resp.verificationStatus = "TAMPERED")
        => /\ ~resp.authentic
           /\ resp.tampered
           /\ resp.tamperType # ""
           /\ resp.confidence # 0

\* C9: for an upload that reached the byte comparison, the first of
\* watermarked_content_hash (for a verified row), processed_content_hash and
\* content_hash that equals the uploaded hash decides: AUTHENTIC, confidence
\* 100, and documentType watermarked_verified, processed or original; when
\* none is equal the answer is not AUTHENTIC
C9_FirstEqualHashDecides ==
    (Uploaded /\ resp.verificationStatus \in {"AUTHENTIC", "TAMPERED"}
     /\ req.dbFault = "none")
        => LET row == docs[resp.documentHash]
               h == KeccakBytes(req.bytes)
               authenticAs(t) == /\ resp.verificationStatus = "AUTHENTIC"
                                 /\ resp.authentic
                                 /\ resp.confidence = 100
                                 /\ resp.documentType = t
           IN IF row.verified /\ h = row.watermarked_content_hash
              THEN authenticAs("watermarked_verified")
              ELSE IF h = row.processed_content_hash THEN authenticAs("processed")
              ELSE IF h = row.content_hash THEN authenticAs("original")
              ELSE resp.verificationStatus = "TAMPERED" /\ ~resp.authentic

\* the stored original bytes were uploaded and matched on content_hash, the
\* last of the three comparisons
C9_Witness ==
    /\ Uploaded
    /\ resp.verificationStatus = "AUTHENTIC"
    /\ resp.documentType = "original"
    /\ KeccakBytes(req.bytes) = docs[resp.documentHash].content_hash
    /\ docs[resp.documentHash].watermarked_content_hash # Nil

\* C10: an upload one of whose candidate hashes equals one of the four hash
\* fields of a stored document is not answered NOT_FOUND
C10_LookupChecksAllFourFields ==
    (Uploaded /\ req.bytes # NoFile
     /\ \E d \in Rows : Candidates(req.bytes) \cap HashFields(d) # {})
        => resp.verificationStatus # "NOT_FOUND"

\* C11: extractHashFromPDF applied to the watermarked PDF stored for a document
\* returns isWatermarked = true and the document's own hash
C11_WatermarkedExtractsDocumentHash ==
    \A d \in Rows :
        LET p == docs[d].watermarked_file_path
        IN (p # NoPath /\ p.ext = ".pdf" /\ Readable(files, p))
              => extractHashFromPDF(files[p]) = [hash |-> d, isWatermarked |-> TRUE]

\* C12: extractHashFromPDF applied to the processed PDF stored for a document,
\* whichever branch of the process step produced it, returns the document's
\* hash and isWatermarked = false
C12_ProcessedExtractsDocumentHash ==
    \A d \in Rows :
        LET p == docs[d].processed_file_path
        IN (p.ext = ".pdf" /\ Readable(files, p))
              => extractHashFromPDF(files[p]) = [hash |-> d, isWatermarked |-> FALSE]

\* the stored file the tamper classification compares sizes with: the
\* watermarked file if the row has its hash, else the processed file, else the
\* original
ExpectedFile(row) ==
    IF row.watermarked_content_hash # Nil THEN row.watermarked_file_path
    ELSE IF row.processed_content_hash # Nil THEN row.processed_file_path
    ELSE IF row.content_hash # Nil THEN row.original_file_path
    ELSE NoPath

ExpectedSize(row) ==
    IF Readable(files, ExpectedFile(row)) THEN files[ExpectedFile(row)].size ELSE 0

\* |uploaded size - expected size| / expected size < num / 100
SizeRatioBelow(bytes, row, num) ==
    /\ ExpectedSize(row) > 0
    /\ Abs(bytes.size - ExpectedSize(row)) * 100 < num * ExpectedSize(row)

\* an upload that reached the byte comparison and matched no variant
Classified == Uploaded /\ resp.verificationStatus = "TAMPERED" /\ req.dbFault = "none"

TaggedAs(t, c) == resp.tamperType = t /\ resp.confidence = c

\* C13: a non-PDF upload that matches no variant is CONTENT_REPLACEMENT (100)
\* when its size equals the expected file's, else MINOR_MODIFICATION (85) when
\* sizeRatio < 0.05, else MAJOR_MODIFICATION (100)
C13_NonPdfClassification ==
    (Classified /\ MimeOf(req.bytes.kind) # "application/pdf")
        => LET row == docs[resp.documentHash]
           IN IF ExpectedFile(row) # NoPath /\ req.bytes.size = ExpectedSize(row)
              THEN TaggedAs("CONTENT_REPLACEMENT", 100)
              ELSE IF ExpectedFile(row) # NoPath /\ SizeRatioBelow(req.bytes, row, 5)
              THEN TaggedAs("MINOR_MODIFICATION", 85)
              ELSE TaggedAs("MAJOR_MODIFICATION", 100)

\* an image of the expected file's size with other content is classified
\* CONTENT_REPLACEMENT
C13_Witness ==
    /\ Classified
    /\ req.bytes.kind = "img"
    /\ ExpectedFile(docs[resp.documentHash]) # NoPath
    /\ req.bytes.size = ExpectedSize(docs[resp.documentHash])
    /\ TaggedAs("CONTENT_REPLACEMENT", 100)

\* the expected variant is the watermarked one
ExpectsWatermarked(row) ==
    row.watermarked_content_hash # Nil /\ Readable(files, row.watermarked_file_path)

\* the upload's page count differs from that of the expected file
PageMismatch(bytes, row) ==
    /\ Readable(files, ExpectedFile(row))
    /\ IsPdf(files[ExpectedFile(row)])
    /\ bytes.pages # files[ExpectedFile(row)].pages

\* C14: a PDF upload that matches no variant and has no page-count mismatch is
\* WATERMARK_MISMATCH (85) when it reports itself watermarked and the expected
\* variant is not the watermarked one, else WATERMARK_REMOVAL (95) when the
\* expected variant is watermarked and the upload does not report itself so,
\* else MINOR_MODIFICATION (70) when sizeRatio < 0.01, else
\* CONTENT_MODIFICATION (95); bytes that do not parse are STRUCTURE_CORRUPTION (100)
C14_PdfClassification ==
    (Classified /\ MimeOf(req.bytes.kind) = "application/pdf")
        => LET row == docs[resp.documentHash]
               wm == Extracted(req.bytes).isWatermarked
           IN IF ~IsPdf(req.bytes) THEN TaggedAs("STRUCTURE_CORRUPTION", 100)
              ELSE IF PageMismatch(req.bytes, row) THEN TRUE
              ELSE IF wm /\ ~ExpectsWatermarked(row) THEN TaggedAs("WATERMARK_MISMATCH", 85)
              ELSE IF ~wm /\ ExpectsWatermarked(row) THEN TaggedAs("WATERMARK_REMOVAL", 95)
              ELSE IF SizeRatioBelow(req.bytes, row, 1) THEN TaggedAs("MINOR_MODIFICATION", 70)
              ELSE TaggedAs("CONTENT_MODIFICATION", 95)

\* a PDF that reports itself watermarked, compared with a variant that is not
\* the watermarked one and has the same page count, is classified
\* WATERMARK_MISMATCH
C14_Witness ==
    /\ Classified
    /\ IsPdf(req.bytes)
    /\ Extracted(req.bytes).isWatermarked
    /\ ~ExpectsWatermarked(docs[resp.documentHash])
    /\ ~PageMismatch(req.bytes, docs[resp.documentHash])
    /\ TaggedAs("WATERMARK_MISMATCH", 85)

\* the upload is the watermarked PDF of confirmed document d with one content
\* byte changed: size, page count and metadata are those of the stored file
FlippedWatermarked(d) ==
    LET p == docs[d].watermarked_file_path
    IN /\ Uploaded
       /\ d \in Rows
       /\ Confirmed(d)
       /\ req.rpcOk
       /\ req.dbFault = "none"
       /\ p # NoPath
       /\ p.ext = ".pdf"
       /\ Readable(files, p)
       /\ req.bytes = Altered(files[p], 0, 0, TRUE)

IssuanceWithoutLedger ==
    /\ req.op \in {"finalize", "request"}
    /\ resp # NoResp
    /\ ~chain.initialized \/ ~req.rpcOk
    /\ ~(chain.initialized /\ req.hash \in Rows /\ AlreadyVerified(docs[req.hash], files))

\* C16: while the ledger gateway is not initialized or unreachable, a request
\* of an issuance flow is answered with a failure (an error status, no
\* success flag) and the document is not stored as registered
C16_IssuanceFailsExplicitly ==
    IssuanceWithoutLedger
        => /\ resp.status \in {400, 500, 503}
           /\ ~resp.success
           /\ resp.verified # "true"
           /\ req.hash \in Rows => ~docs[req.hash].verified \/ ledger[req.hash].exists

\* C17: a row records a watermarked variant (its path or its content hash)
\* only for a verified document, and no watermarked file is recorded or
\* written for a document that the ledger has not registered
C17_WatermarkOnlyAfterRegistration ==
    \A d \in DocHashes :
        /\ (docs[d].watermarked_file_path # NoPath \/ docs[d].watermarked_content_hash # Nil)
              => docs[d].verified /\ ledger[d].exists
        /\ (\E e \in Exts : files[Path("watermarked", d, e)] # NoFile) => ledger[d].exists

\* C18: a row whose finalize succeeded holds the transaction hash and the
\* block number that the registration returned, and a row that was never
\* registered holds neither
C18_TxAndBlockIffRegistered ==
    \A d \in Rows :
        IF docs[d].verified
        THEN /\ ledger[d].exists
             /\ docs[d].blockchain_tx_hash = ledger[d].tx
             /\ docs[d].block_number = ledger[d].block
        ELSE /\ docs[d].blockchain_tx_hash = Nil
             /\ docs[d].block_number = Nil

\* C19: every result of POST /api/verify/upload (NOT_FOUND, NOT_VERIFIED,
\* AUTHENTIC, TAMPERED) carries the hash of the uploaded bytes as uploadedHash
\* and names the hash algorithm
C19_ResultCarriesHashAndAlgorithm ==
    (Uploaded /\ resp.verificationStatus \in {"NOT_FOUND", "NOT_VERIFIED", "AUTHENTIC", "TAMPERED"})
        => /\ resp.uploadedHash = KeccakBytes(req.bytes)
           /\ resp.hashAlgorithm # ""

\* C20: for the same issuance data the PDF pipeline's encoder and the Word
\* template pipeline's encoders produce the same canonical string, and
\* encoding again later produces that string again
C20_EncodersAgree ==
    \A a, b \in Encoders :
        \A x \in {enc.first[a], enc.last[a]}, y \in {enc.first[b], enc.last[b]} :
            (x # NotEncoded /\ y # NotEncoded) => x = y

\* C21: a PDF upload that matches no variant and whose page count differs
\* from that of the expected file, whichever variant that is, is classified
\* PAGE_MODIFICATION with confidence 100
C21_PageCountComparedFirst ==
    (Classified /\ MimeOf(req.bytes.kind) = "application/pdf" /\ IsPdf(req.bytes)
        /\ PageMismatch(req.bytes, docs[resp.documentHash]))
        => TaggedAs("PAGE_MODIFICATION", 100)

\* the highest-priority variant of the row that has a recorded hash and a
\* readable file
BestReadableVariant(row) ==
    IF row.watermarked_content_hash # Nil /\ Readable(files, row.watermarked_file_path)
    THEN "watermarked"
    ELSE IF row.processed_content_hash # Nil /\ Readable(files, row.processed_file_path)
    THEN "processed"
    ELSE IF row.content_hash # Nil /\ Readable(files, row.original_file_path)
    THEN "original"
    ELSE ""

\* C22: the tamper classification compares with the highest-priority variant
\* (watermarked, processed, original) that has a recorded hash and a readable
\* file; a variant whose file cannot be read is skipped
C22_ExpectedIsBestReadableVariant ==
    Classified => resp.expectedVersion = BestReadableVariant(docs[resp.documentHash])

\* the hash that the backfill leaves in a field: the hash of the file when the
\* field was empty and the file can be read, else what the field held
Backfilled(h, p) ==
    IF h = Nil /\ Readable(files, p) THEN KeccakBytes(files[p]) ELSE h

\* an upload has just been answered after resolving to a document that the
\* ledger confirms
ComparedUpload ==
    /\ resp = NoResp
    /\ resp'.op = "upload"
    /\ resp'.documentHash # Nil
    /\ resp'.verificationStatus \in {"AUTHENTIC", "TAMPERED"}

\* C23: the backfill stores the hash of every variant whose hash is absent and
\* whose file is readable and leaves every present hash as it is; an
\* unreadable file neither fails the verification nor keeps the other
\* variants' hashes from being stored
C23_BackfillIsPartialAndMonotone ==
    [][ComparedUpload =>
          LET d == resp'.documentHash
          IN /\ resp'.status = 200
             /\ docs'[d].processed_content_hash
                   = Backfilled(docs[d].processed_content_hash, docs[d].processed_file_path)
             /\ docs'[d].content_hash
                   = Backfilled(docs[d].content_hash, docs[d].original_file_path)
             /\ docs'[d].watermarked_content_hash
                   = Backfilled(docs[d].watermarked_content_hash, docs[d].watermarked_file_path)]_vars

\* an upload was compared for a document one of whose files is lost: that
\* variant's hash stays absent while the original's hash is stored
C23_Witness ==
    /\ Uploaded
    /\ resp.verificationStatus \in {"AUTHENTIC", "TAMPERED"}
    /\ LET row == docs[resp.documentHash]
       IN /\ row.processed_content_hash = Nil
          /\ ~Readable(files, row.processed_file_path)
          /\ row.content_hash # Nil
          /\ Readable(files, row.original_file_path)

\* the content hash a row records for a variant
VariantHash(row, v) ==
    CASE v = "original" -> row.content_hash
      [] v = "processed" -> row.processed_content_hash
      [] OTHER -> row.watermarked_content_hash

\* the row with its three content hashes blanked: what an upload must not touch
WithoutContentHashes(row) ==
    [row EXCEPT !.content_hash = Nil, !.processed_content_hash = Nil,
                !.watermarked_content_hash = Nil]

\* C24: a POST /api/verify/upload, whatever its outcome and wherever it stops,
\* changes no stored file, no ledger record and no field of a row other than
\* the three content hashes; each hash it leaves is the old one or the
\* backfilled one, so that a repetition ends with the hashes of one complete call
C24_UploadOnlyFillsHashes ==
    [][(resp = NoResp /\ resp'.op = "upload") =>
          /\ files' = files
          /\ ledger' = ledger
          /\ txCount' = txCount
          /\ \A d \in DocHashes :
                /\ WithoutContentHashes(docs'[d]) = WithoutContentHashes(docs[d])
                /\ \A v \in {"original", "processed", "watermarked"} :
                      LET h == VariantHash(docs[d], v)
                          h2 == VariantHash(docs'[d], v)
                          p == VariantPath(d, v)
                      IN /\ h2 \in {h, Backfilled(h, p)}
                         /\ Backfilled(h2, p) = Backfilled(h, p)]_vars

\* an upload stopped after the backfill (the re-fetch failed) and left the
\* document with the hash of its original while the hash of its lost processed
\* file stays absent
C24_Witness ==
    /\ resp.op = "upload"
    /\ req.dbFault = "refetch"
    /\ resp.documentHash # Nil
    /\ docs[resp.documentHash].content_hash # Nil
    /\ docs[resp.documentHash].processed_content_hash = Nil

\* C25: uploading the exact bytes of a currently stored variant file of a
\* ledger-confirmed document, when the upload resolves to that document, is
\* answered AUTHENTIC even if the hash recorded for the variant is stale
C25_CurrentFileIsAuthentic ==
    \A d \in DocHashes, v \in {"original", "processed", "watermarked"} :
        (/\ Uploaded
         /\ req.dbFault = "none"
         /\ req.rpcOk
         /\ Confirmed(d)
         /\ resp.documentHash = d
         /\ Readable(files, VariantPath(d, v))
         /\ req.bytes = files[VariantPath(d, v)])
            => resp.verificationStatus = "AUTHENTIC"

\* the draft has a finalized document
DraftFinalized(d) == \E f \in FinalizedIds : finalizedStore[f].exists /\ finalizedStore[f].draftId = d

\* a handler changed the stored draft d
DraftEdited(d) == draftsStore'[d].exists /\ draftsStore'[d] # draftsStore[d]

\* a handler stored a finalized document made from draft d
DraftFinalizedAgain(d) ==
    /\ finalizedStore' # finalizedStore
    /\ templateResp' = TemplateResp("finalize", d, 200)

\* a hash was added to the ledger by the register route
TemplateRegistered(h) == ~templateLedger[h].exists /\ templateLedger'[h].exists

\* C26: the template workflow only moves forward (draft, edited, finalized,
\* registered): no step edits a draft that has a finalized document or
\* finalizes it again, and a hash is registered only for a finalized document
C26_LifecycleOnlyForward ==
    [][/\ \A d \in DraftIds :
             DraftFinalized(d) => ~DraftEdited(d) /\ ~DraftFinalizedAgain(d)
       /\ \A h \in TemplateHashes :
             TemplateRegistered(h) =>
                 \E f \in FinalizedIds : finalizedStore[f].exists /\ finalizedStore[f].contentHash = h]_vars

\* the part of C26 that concerns the register route
C26_OnlyFinalizedRegistered ==
    [][\A h \in TemplateHashes :
          TemplateRegistered(h) =>
              \E f \in FinalizedIds : finalizedStore[f].exists /\ finalizedStore[f].contentHash = h]_vars

\* the key is locked out now
Locked(k) == isAccountLocked(loginAttempts, k, clock)

\* this step records the fifth failure in a row for the key
FifthFailure(k) ==
    loginAttempts[k].count < MAX_LOGIN_ATTEMPTS /\ loginAttempts'[k].count >= MAX_LOGIN_ATTEMPTS

\* this step lets a login for the key pass the lockout test
Admitted(k) ==
    \E c \in Clients : login[c].pc = "idle" /\ login'[c].pc = "query" /\ login'[c].key = k

\* this step answers a login for the key at once
AnsweredAtOnce(k) ==
    /\ login' = login
    /\ authResp' # authResp
    /\ authResp'.op = "login" /\ authResp'.key = k /\ authResp'.status # 400

\* C27: the fifth failed login in a row locks the key for 15 minutes, and
\* until then every further login with a username and a password, whatever
\* the password, is answered 429 and the key stays locked
C27_LockedOutUntilExpiry ==
    [][\A k \in Keys :
          /\ FifthFailure(k) => loginAttempts'[k].lockedUntil = clock + LOCKOUT_DURATION
          /\ Locked(k) =>
                /\ ~Admitted(k)
                /\ AnsweredAtOnce(k) => authResp'.status = 429
                /\ clock' < loginAttempts[k].lockedUntil =>
                      isAccountLocked(loginAttempts', k, clock')]_vars

\* the key was locked out and the lockout is over
LockoutExpired(k) ==
    /\ loginAttempts[k].exists
    /\ loginAttempts[k].lockedUntil # 0
    /\ loginAttempts[k].lockedUntil <= clock

\* this step records a failed login for the key
FailureRecorded(k) ==
    /\ \E c \in Clients : login[c].pc = "query" /\ login[c].key = k /\ login'[c].pc = "idle"
    /\ loginAttempts'[k].exists
    /\ loginAttempts'[k] # loginAttempts[k]

\* C28: after a lockout has expired the failures of the key are counted from
\* zero: one failed login then counts as the first and does not lock the key,
\* also when the clean-up timer has not yet removed the entry
C28_ExpiredLockoutStartsAfresh ==
    [][\A k \in Keys :
          (LockoutExpired(k) /\ FailureRecorded(k)) =>
              /\ loginAttempts'[k].count = 1
              /\ ~isAccountLocked(loginAttempts', k, clock')]_vars

\* the same when the clean-up has removed the entry of the expired lockout
C28_AfterCleanupStartsAfresh ==
    [][\A k \in Keys :
          (~loginAttempts[k].exists /\ FailureRecorded(k)) =>
              /\ loginAttempts'[k].count = 1
              /\ ~isAccountLocked(loginAttempts', k, clock')]_vars

\* the session was created by a login and has been logged out
LoggedOut(s) == s \in tokens /\ s \notin activeSessions

\* this step answers a request that went through authenticateToken with the
\* token of session s
Authenticated(s) ==
    /\ authResp' # authResp
    /\ authResp'.op \in {"logout", "session-info"}
    /\ authResp'.session = s

\* C29: after the logout of a session every request with its token is
\* answered 403 by authenticateToken and the session never becomes active
\* again, however logins, logouts and requests interleave; a session becomes
\* active only as the new session of a successful login
C29_LoggedOutTokenRejected ==
    [][/\ \A s \in SessionIds :
             LoggedOut(s) => /\ s \notin activeSessions'
                             /\ Authenticated(s) => authResp'.status = 403
       /\ \A s \in activeSessions' \ activeSessions :
             s \notin tokens /\ authResp' = AuthResp("login", authResp'.key, s, 200, "")]_vars

\* a request with the token of a logged-out session has been answered 403
\* while the session of a later login is active
C29_Witness ==
    \E s \in SessionIds :
        /\ LoggedOut(s)
        /\ authResp = AuthResp("session-info", 0, s, 403, "Session expired")
        /\ activeSessions # {}

\* the rows of documents inserted for request r
RowsOf(rows, r) == {row \in rows : row.request = r}

\* the calls that have passed the pending check for request r and are at work
PassedCheck(cs, r) == {c \in Clients : cs[c].pc # "idle" /\ cs[c].request = r}

====
